---------------------------- MODULE Spec2Model ----------------------------
(***************************************************************************)
(* Model of the build-metadata extractor core: the extractor registry,     *)
(* the per-ecosystem Detect/Extract operations (C/C++, Elixir, Scala from  *)
(* their sources; Terraform, PHP, Swift from their tests) and the project  *)
(* directory they probe.                                                    *)
(*                                                                         *)
(* Strings whose characters matter (names, versions, captures that are     *)
(* trimmed or split) are sequences of one-character strings; fixed labels  *)
(* (file names, map keys, error texts) are TLA+ strings.                    *)
(***************************************************************************)
EXTENDS Integers, Sequences, FiniteSets, TLC

VARIABLES
    dirStatus,  \* the queried project directory: "ok", "missing" or "denied"
    fs,         \* its entries: path -> [kind, st, body]
    registry,   \* the process-wide sequence of registered extractors
    phase,      \* "init" while package init() functions run, then "serving"
    inited,     \* the ecosystem packages whose init() has run
    res,        \* the value returned by the most recent operation
    calls,      \* the calls running concurrently: call id -> its local state
    matrix,     \* a version-matrix generator call: its input and its result
    summary     \* a summary generation: the metadata map and the tool rows written

vars == <<dirStatus, fs, registry, phase, inited, res, calls, matrix, summary>>

-----------------------------------------------------------------------------
(* Bounds of the model                                                     *)

MaxRegistry == 2
MaxPriority == 2
MaxLines == 2
MaxFiles == 2

-----------------------------------------------------------------------------
(* Strings as character sequences                                          *)

EmptyStr == <<>>

IsSpace(c) == c \in {" ", "\t"}

RECURSIVE TrimLeft(_)
TrimLeft(s) ==
    IF s # <<>> /\ IsSpace(Head(s)) THEN TrimLeft(Tail(s)) ELSE s

RECURSIVE TrimRight(_)
TrimRight(s) ==
    IF s # <<>> /\ IsSpace(s[Len(s)])
    THEN TrimRight(SubSeq(s, 1, Len(s) - 1))
    ELSE s

\* strings.TrimSpace
TrimSpace(s) == TrimRight(TrimLeft(s))

\* strings.Split(s, " ")[0]: the text before the first space
RECURSIVE FirstField(_)
FirstField(s) ==
    IF s = <<>> \/ Head(s) = " " THEN <<>> ELSE <<Head(s)>> \o FirstField(Tail(s))

\* strings.Split(s, sep), the separator a single character
RECURSIVE SplitOn(_, _, _)
SplitOn(s, sep, cur) ==
    IF s = <<>> THEN <<cur>>
    ELSE IF Head(s) = sep THEN <<cur>> \o SplitOn(Tail(s), sep, <<>>)
    ELSE SplitOn(Tail(s), sep, Append(cur, Head(s)))

Split(s, sep) == SplitOn(s, sep, <<>>)

\* fmt.Sprintf("%s:%s", a, b)
JoinColon(a, b) == a \o <<":">> \o b

-----------------------------------------------------------------------------
(* The project directory                                                   *)
(* A path is <<directory relative to the project root, file name,          *)
(* extension>>; an entry is [kind, st, body]: kind "file" or "dir"; st     *)
(* "ok", "noopen" (stat succeeds, open fails) or "readerr" (the read       *)
(* fails after the lines of body were delivered); body is what the         *)
(* extractor's patterns find in the file, line by line.                    *)

P(dir, name, ext) == <<dir, name, ext>>

CMakeListsTxt == P("", "CMakeLists.txt", "txt")
QmakeConf == P("", ".qmake.conf", "conf")
MakefileP == P("", "Makefile", "")
ConfigureAc == P("", "configure.ac", "ac")
MesonBuild == P("", "meson.build", "build")
MixExs == P("", "mix.exs", "exs")
BuildSbt == P("", "build.sbt", "sbt")
BuildSc == P("", "build.sc", "sc")
BuildProperties == P("project", "build.properties", "properties")
PomXml == P("", "pom.xml", "xml")
SrcDir == P("", "src", "")
LibDir == P("", "lib", "")
IncludeDir == P("", "include", "")
ProjectDir == P("", "project", "")
SrcMainDir == P("src", "main", "")
SrcMainScalaDir == P("src/main", "scala", "")
ComposerJson == P("", "composer.json", "json")
PackageSwift == P("", "Package.swift", "swift")
MainTf == P("", "main.tf", "tf")

\* the directory entry a path lies in (none for the project root)
ParentOf(p) ==
    CASE p[1] = "" -> {}
      [] p[1] = "src" -> {SrcDir}
      [] p[1] = "lib" -> {LibDir}
      [] p[1] = "include" -> {IncludeDir}
      [] p[1] = "project" -> {ProjectDir}
      [] p[1] = "src/main" -> {SrcMainDir}
      [] p[1] = "src/main/scala" -> {SrcMainScalaDir}
      [] OTHER -> {}

File(st, body) == [kind |-> "file", st |-> st, body |-> body]
Dir == [kind |-> "dir", st |-> "ok", body |-> <<>>]

\* os.Stat(filepath.Join(projectPath, p)) returns a nil error
Stat(p) == dirStatus = "ok" /\ p \in DOMAIN fs

\* os.Stat succeeds and info.IsDir()
IsDir(p) == Stat(p) /\ fs[p].kind = "dir"

\* filepath.Glob(filepath.Join(projectPath, dir, "*." + ext)): I/O errors are
\* ignored and give no match
Glob(dir, ext) ==
    IF dirStatus = "ok" THEN {p \in DOMAIN fs : p[1] = dir /\ p[3] = ext} ELSE {}

\* os.Open / os.ReadFile can open the file
CanOpen(p) == Stat(p) /\ fs[p].kind = "file" /\ fs[p].st # "noopen"

\* every entry lies in a directory that exists
WellFormed(f) ==
    \A p \in DOMAIN f : \A d \in ParentOf(p) : d \in DOMAIN f /\ f[d].kind = "dir"

-----------------------------------------------------------------------------
(* Detect                                                                  *)

CppPatterns == {"cpp", "cc", "cxx", "hpp", "hxx", "h"}

\* Detect accepting C/C++ sources in any sub-directory
CppDetectRecursive ==
    \/ Stat(CMakeListsTxt)
    \/ Stat(QmakeConf)
    \/ Stat(MakefileP)
    \/ Stat(ConfigureAc)
    \/ Stat(MesonBuild)
    \/ (dirStatus = "ok" /\ \E p \in DOMAIN fs : p[3] \in CppPatterns)

\* Detect looking for C/C++ sources in the project root only
CppDetectRootOnly ==
    \/ Stat(CMakeListsTxt)
    \/ Stat(QmakeConf)
    \/ Stat(MakefileP)
    \/ Stat(ConfigureAc)
    \/ Stat(MesonBuild)
    \/ \E ext \in CppPatterns : Glob("", ext) # {}

\* cpp: Extractor.Detect
CppDetect ==
    \/ Stat(CMakeListsTxt)
    \/ Stat(QmakeConf)
    \/ Stat(MakefileP)
    \/ Stat(ConfigureAc)
    \/ Stat(MesonBuild)
    \/ \E ext \in CppPatterns : Glob("", ext) # {}
    \/ (IsDir(SrcDir) /\ \E ext \in CppPatterns : Glob("src", ext) # {})

\* elixir: Extractor.Detect
ElixirDetect ==
    \/ Stat(MixExs)
    \/ (IsDir(LibDir) /\ Glob("lib", "ex") # {})
    \/ \E ext \in {"ex", "exs"} : Glob("", ext) # {}

\* os.ReadFile returns the whole content and a nil error
ReadFileOk(p) == CanOpen(p) /\ fs[p].st = "ok"

\* strings.Contains(string(content), "scala") on pom.xml
PomMentionsScala == \E i \in 1..Len(fs[PomXml].body) : fs[PomXml].body[i].scala

\* scala: Extractor.Detect
ScalaDetect ==
    \/ Stat(BuildSbt)
    \/ Stat(BuildProperties)
    \/ Stat(BuildSc)
    \/ (ReadFileOk(PomXml) /\ PomMentionsScala)
    \/ IsDir(SrcMainScalaDir)
    \/ Glob("", "scala") # {}
    \/ Glob("src", "scala") # {}

\* terraform, php, swift: Detect as their tests describe it
TerraformDetect == Glob("", "tf") # {}
PhpDetect == Stat(ComposerJson)
SwiftDetect == Stat(PackageSwift)

Ecosystems == {"cpp", "elixir", "scala", "terraform", "php", "swift"}

\* Detect of the extractor named n
DetectOf(n) ==
    CASE n = "cpp" -> CppDetect
      [] n = "elixir" -> ElixirDetect
      [] n = "scala" -> ScalaDetect
      [] n = "terraform" -> TerraformDetect
      [] n = "php" -> PhpDetect
      [] n = "swift" -> SwiftDetect
      [] OTHER -> FALSE

-----------------------------------------------------------------------------
(* ProjectMetadata                                                         *)

EmptyMap == [k \in {} |-> 0]

\* m[k] = v on a Go map
MapPut(m, k, v) == [x \in (DOMAIN m) \cup {k} |-> IF x = k THEN v ELSE m[x]]

Has(m, k) == k \in DOMAIN m

\* &extractor.ProjectMetadata{}: LanguageSpecific left nil
NewMetadataNilMap ==
    [Name |-> EmptyStr, Version |-> EmptyStr, VersionSource |-> "",
     Description |-> EmptyStr, Homepage |-> EmptyStr, License |-> EmptyStr,
     Authors |-> <<>>, nilMap |-> TRUE, LanguageSpecific |-> EmptyMap]

\* &extractor.ProjectMetadata{LanguageSpecific: make(map[string]interface{})}
NewMetadata ==
    [Name |-> EmptyStr, Version |-> EmptyStr, VersionSource |-> "",
     Description |-> EmptyStr, Homepage |-> EmptyStr, License |-> EmptyStr,
     Authors |-> <<>>, nilMap |-> FALSE, LanguageSpecific |-> EmptyMap]

\* metadata.LanguageSpecific[k] = v
PutLS(m, k, v) == [m EXCEPT !.LanguageSpecific = MapPut(@, k, v)]

\* what a parse function hands back: the metadata as it left it, and its error
Parsed(m, err) == [meta |-> m, err |-> err]

\* what Extract returns: a metadata pointer (<<>> is nil) and an error ("" is nil)
Returned(m, err) == [meta |-> m, err |-> err]

\* the error a failed os.Open / os.ReadFile gives, and a failed read
OpenErr == "open failed"
ReadErr == "read failed"

\* scanner.Err() after the loop over the file at p
ScanErr(p) == IF fs[p].st = "readerr" THEN ReadErr ELSE ""

\* stores the count whatever the list holds, the list only when not empty
StoreDependenciesUnguarded(m, deps) ==
    PutLS(IF Len(deps) > 0 THEN PutLS(m, "dependencies", deps) ELSE m,
          "dependency_count", Len(deps))

\* stores the dependency list and its count when the list is not empty
StoreDependencies(m, deps) ==
    IF Len(deps) > 0
    THEN PutLS(PutLS(m, "dependencies", deps), "dependency_count", Len(deps))
    ELSE m

StoreList(m, key, xs) == IF Len(xs) > 0 THEN PutLS(m, key, xs) ELSE m

-----------------------------------------------------------------------------
(* C/C++                                                                   *)
(* A CMakeLists.txt line is what the six patterns capture on it: proj,     *)
(* ver, desc from projectRegex, cxx, cstd, exe, lib, dep from the others   *)
(* (<<>> when the pattern does not match); skip when the trimmed line      *)
(* starts with '#'.                                                        *)

CMakeLine(skip, proj, ver, desc, cxx, exe, lib, dep) ==
    [skip |-> skip, proj |-> proj, ver |-> ver, desc |-> desc, cxx |-> cxx,
     cstd |-> <<>>, exe |-> exe, lib |-> lib, dep |-> dep]

AddIf(xs, x) == IF x # <<>> THEN Append(xs, x) ELSE xs

\* the body of the scan loop of extractFromCMake, for one line
CMakeStep(acc, l) ==
    IF l.skip THEN acc
    ELSE
      LET m0 == acc.m
          m1 == IF l.proj # <<>>
                THEN LET a == [m0 EXCEPT !.Name = l.proj]
                         b == IF l.ver # <<>>
                              THEN [a EXCEPT !.Version = l.ver,
                                             !.VersionSource = "CMakeLists.txt"]
                              ELSE a
                     IN IF l.desc # <<>> THEN [b EXCEPT !.Description = l.desc] ELSE b
                ELSE m0
          m2 == IF l.cxx # <<>> THEN PutLS(m1, "cxx_standard", l.cxx) ELSE m1
          m3 == IF l.cstd # <<>> THEN PutLS(m2, "c_standard", l.cstd) ELSE m2
      IN [m |-> m3,
          exes |-> AddIf(acc.exes, l.exe),
          libs |-> AddIf(acc.libs, l.lib),
          deps |-> AddIf(acc.deps, l.dep)]

RECURSIVE CMakeScan(_, _)
CMakeScan(lines, acc) ==
    IF lines = <<>> THEN acc ELSE CMakeScan(Tail(lines), CMakeStep(acc, Head(lines)))

\* cpp: Extractor.extractFromCMake
extractFromCMake(p, metadata) ==
    IF ~CanOpen(p) THEN Parsed(metadata, OpenErr)
    ELSE
      LET Scanned(acc) ==
              IF ScanErr(p) # "" THEN Parsed(acc.m, ScanErr(p))
              ELSE Parsed(StoreDependencies(
                             StoreList(StoreList(acc.m, "executables", acc.exes),
                                       "libraries", acc.libs),
                             acc.deps), "")
      IN Scanned(CMakeScan(fs[p].body,
                           [m |-> metadata, exes |-> <<>>, libs |-> <<>>, deps |-> <<>>]))

\* A .qmake.conf line: mv is the capture of moduleVersionRegex, v that of
\* versionRegex (which also matches inside a MODULE_VERSION assignment)
QmakeLine(mv, v) == [mv |-> mv, v |-> v]

\* the loop body of extractFromQmake keeping the first version it finds
QmakeStepFirstFound(m, l) ==
    IF m.Version # EmptyStr THEN m
    ELSE IF l.mv # <<>> THEN [m EXCEPT !.Version = l.mv, !.VersionSource = ".qmake.conf"]
    ELSE IF l.v # <<>> THEN [m EXCEPT !.Version = l.v, !.VersionSource = ".qmake.conf"]
    ELSE m

\* the loop body of extractFromQmake
QmakeStep(m, l) ==
    LET m1 == IF l.mv # <<>>
              THEN [m EXCEPT !.Version = l.mv, !.VersionSource = ".qmake.conf"]
              ELSE m
    IN IF m1.Version = EmptyStr /\ l.v # <<>>
       THEN [m1 EXCEPT !.Version = l.v, !.VersionSource = ".qmake.conf"]
       ELSE m1

RECURSIVE QmakeScan(_, _)
QmakeScan(lines, m) ==
    IF lines = <<>> THEN m ELSE QmakeScan(Tail(lines), QmakeStep(m, Head(lines)))

\* extractFromQmake filling Name with a placeholder
extractFromQmakeNamed(p, metadata) ==
    IF ~CanOpen(p) THEN Parsed(metadata, OpenErr)
    ELSE Parsed([QmakeScan(fs[p].body, metadata) EXCEPT !.Name = <<"q", "m", "a", "k", "e">>],
                ScanErr(p))

\* cpp: Extractor.extractFromQmake
extractFromQmake(p, metadata) ==
    IF ~CanOpen(p) THEN Parsed(metadata, OpenErr)
    ELSE Parsed(QmakeScan(fs[p].body, metadata), ScanErr(p))

\* meson.build. Its content is a sequence of tokens: the characters ' " # \
\* and newline, ")" and, as one token each, the runs of other characters the
\* patterns look for ("executable(", ", version: ") or capture ("a").
\* A body is either <<MesonText(content)>> or, in short, the declarations the
\* patterns find in a file without comments, in file order: k is "project",
\* "executable", "library" or "dependency", a the quoted name, b the
\* version: '...' of a project() declaration
MesonDecl(k, a, b) == [k |-> k, a |-> a, b |-> b]

MesonText(content) == MesonDecl("text", content, <<>>)

\* the index of the '#' that starts the comment of line, 0 when there is
\* none (the loop over line in stripMesonComments, from index i on)
RECURSIVE CommentStart(_, _, _, _)
CommentStart(line, i, inString, stringChar) ==
    IF i > Len(line) THEN 0
    ELSE IF ~inString /\ line[i] \in {"'", "\""}
         THEN CommentStart(line, i + 1, TRUE, line[i])
    ELSE IF inString /\ line[i] = stringChar
         THEN CommentStart(line, i + 1, ~(i > 1 /\ line[i - 1] # "\\"), stringChar)
    ELSE IF ~inString /\ line[i] = "#" THEN i
    ELSE CommentStart(line, i + 1, inString, stringChar)

\* every line up to its comment, a newline written after each
RECURSIVE StripLines(_)
StripLines(lines) ==
    IF lines = <<>> THEN <<>>
    ELSE LET Kept(line, commentStart) ==
                 IF commentStart > 0 THEN SubSeq(line, 1, commentStart - 1) ELSE line
         IN Kept(Head(lines), CommentStart(Head(lines), 1, FALSE, ""))
            \o <<"\n">> \o StripLines(Tail(lines))

\* cpp: stripMesonComments
stripMesonComments(content) == StripLines(Split(content, "\n"))

\* the first index from i on that holds no white space
RECURSIVE SkipSpace(_, _)
SkipSpace(text, i) ==
    IF i <= Len(text) /\ text[i] = "\n" THEN SkipSpace(text, i + 1) ELSE i

\* the index of the first ' from i on, 0 when there is none
RECURSIVE NextQuote(_, _)
NextQuote(text, i) ==
    IF i > Len(text) THEN 0
    ELSE IF text[i] = "'" THEN i
    ELSE NextQuote(text, i + 1)

\* \s*'([^']+)' matched at index i: the index of the closing ', 0 when the
\* pattern does not match there
QuotedAt(text, i) ==
    LET Opened(open) ==
            IF open > Len(text) \/ text[open] # "'" THEN 0
            ELSE LET Close(q) == IF q > open + 1 THEN q ELSE 0
                 IN Close(NextQuote(text, open + 1))
    IN Opened(SkipSpace(text, i))

\* the capture of the match QuotedAt(text, i) found, which closes at close
Capture(text, i, close) == SubSeq(text, SkipSpace(text, i) + 1, close - 1)

\* FindAllStringSubmatch of keyword\s*'([^']+)' on text from index i on: the
\* captures, the matches not overlapping
RECURSIVE FindAllQuoted(_, _, _)
FindAllQuoted(text, i, keyword) ==
    IF i > Len(text) THEN <<>>
    ELSE LET Matched(close) ==
                 IF text[i] = keyword /\ close > 0
                 THEN <<Capture(text, i + 1, close)>> \o FindAllQuoted(text, close + 1, keyword)
                 ELSE FindAllQuoted(text, i + 1, keyword)
         IN Matched(QuotedAt(text, i + 1))

\* the indices k > i up to which [^)]* may run from a project( at index i
NoParenRun(text, i) ==
    { k \in (i + 1)..Len(text) : \A j \in (i + 1)..(k - 1) : text[j] # ")" }

\* projectVersionRegex matched at the project( at index i: the indices of
\* the version: tokens it may end on
VersionAt(text, i) ==
    { k \in NoParenRun(text, i) : text[k] = ", version: " /\ QuotedAt(text, k + 1) > 0 }

Max(S) == CHOOSE x \in S : \A y \in S : y <= x

Min(S) == CHOOSE x \in S : \A y \in S : x <= y

\* FindStringSubmatch of projectVersionRegex: the leftmost project( the
\* pattern matches at, [^)]* running on to the last version: it can
FindVersion(text) ==
    LET starts == { i \in 1..Len(text) : text[i] = "project(" /\ VersionAt(text, i) # {} }
        At(k) == <<Capture(text, k + 1, QuotedAt(text, k + 1))>>
    IN IF starts = {} THEN <<>> ELSE At(Max(VersionAt(text, Min(starts))))

\* the declarations the five patterns find in text
MesonFind(text) ==
    LET Named(names, vers) ==
            (IF names # <<>> THEN <<MesonDecl("project", Head(names), <<>>)>> ELSE <<>>)
            \o (IF vers # <<>> THEN <<MesonDecl("project", <<>>, Head(vers))>> ELSE <<>>)
        Of(k, names) == [i \in 1..Len(names) |-> MesonDecl(k, names[i], <<>>)]
    IN Named(FindAllQuoted(text, 1, "project("), FindVersion(text))
       \o Of("executable", FindAllQuoted(text, 1, "executable("))
       \o Of("library", FindAllQuoted(text, 1, "library("))
       \o Of("dependency", FindAllQuoted(text, 1, "dependency("))

\* the declarations of a body
MesonDeclsOf(body) ==
    IF body # <<>> /\ body[1].k = "text"
    THEN MesonFind(stripMesonComments(body[1].a))
    ELSE body

RECURSIVE MesonNames(_, _)
MesonNames(decls, k) ==
    IF decls = <<>> THEN <<>>
    ELSE (IF Head(decls).k = k /\ Head(decls).a # <<>> THEN <<Head(decls).a>> ELSE <<>>)
         \o MesonNames(Tail(decls), k)

RECURSIVE MesonVersions(_)
MesonVersions(decls) ==
    IF decls = <<>> THEN <<>>
    ELSE (IF Head(decls).k = "project" /\ Head(decls).b # <<>>
          THEN <<Head(decls).b>> ELSE <<>>)
         \o MesonVersions(Tail(decls))

\* cpp: Extractor.extractFromMeson
extractFromMeson(p, metadata) ==
    IF ~ReadFileOk(p) THEN Parsed(metadata, OpenErr)
    ELSE
      LET Named(names) ==
              IF names # <<>> THEN [metadata EXCEPT !.Name = Head(names)] ELSE metadata
          Versioned(m1, vers) ==
              IF vers # <<>>
              THEN [m1 EXCEPT !.Version = Head(vers), !.VersionSource = "meson.build"]
              ELSE m1
          Found(decls) ==
              Parsed(StoreDependencies(
                        StoreList(StoreList(Versioned(Named(MesonNames(decls, "project")),
                                                      MesonVersions(decls)),
                                            "executables", MesonNames(decls, "executable")),
                                  "libraries", MesonNames(decls, "library")),
                        MesonNames(decls, "dependency")), "")
      IN Found(MesonDeclsOf(fs[p].body))

\* A configure.ac line: acName and acVer are the two captures of acInitRegex
\* (both at least one character, untrimmed), pkg that of pkgCheckRegex; skip
\* when the trimmed line starts with '#' or 'dnl'
AutotoolsLine(skip, acName, acVer, pkg) ==
    [skip |-> skip, acName |-> acName, acVer |-> acVer, pkg |-> pkg]

AutotoolsStep(acc, l) ==
    IF l.skip THEN acc
    ELSE
      LET m1 == IF l.acName # <<>>
                THEN [acc.m EXCEPT !.Name = TrimSpace(l.acName),
                                   !.Version = TrimSpace(l.acVer),
                                   !.VersionSource = "configure.ac"]
                ELSE acc.m
      IN [m |-> m1,
          deps |-> IF l.pkg # <<>>
                   THEN Append(acc.deps, FirstField(TrimSpace(l.pkg)))
                   ELSE acc.deps]

RECURSIVE AutotoolsScan(_, _)
AutotoolsScan(lines, acc) ==
    IF lines = <<>> THEN acc
    ELSE AutotoolsScan(Tail(lines), AutotoolsStep(acc, Head(lines)))

\* cpp: Extractor.extractFromAutotools
extractFromAutotools(p, metadata) ==
    IF ~CanOpen(p) THEN Parsed(metadata, OpenErr)
    ELSE
      LET acc == AutotoolsScan(fs[p].body, [m |-> metadata, deps |-> <<>>])
      IN Parsed(StoreDependencies(acc.m, acc.deps), ScanErr(p))

\* one rung of Extract's chain returning whatever the parse function reports
TryManifestUnchecked(exists, parsed, metadata) ==
    IF exists
    THEN [used |-> TRUE, meta |-> parsed.meta]
    ELSE [used |-> FALSE, meta |-> metadata]

\* one rung of Extract's chain: when the manifest exists it is parsed into
\* the shared metadata; used is whether Extract returns here
TryManifest(exists, parsed, metadata) ==
    IF exists
    THEN [used |-> parsed.err = "", meta |-> parsed.meta]
    ELSE [used |-> FALSE, meta |-> metadata]

\* Extract failing instead of falling back to the "Makefile" label
CppExtractStrict ==
    LET m0 == NewMetadata
        Labelled(c, q, s, a) ==
            IF c.used THEN Returned(<<PutLS(c.meta, "build_system", "CMake")>>, "")
            ELSE IF q.used THEN Returned(<<PutLS(q.meta, "build_system", "qmake")>>, "")
            ELSE IF s.used THEN Returned(<<PutLS(s.meta, "build_system", "Meson")>>, "")
            ELSE IF a.used THEN Returned(<<PutLS(a.meta, "build_system", "Autotools")>>, "")
            ELSE Returned(<<>>, "no build system found")
        AfterMeson(c, q, s) ==
            Labelled(c, q, s, TryManifest(Stat(ConfigureAc),
                                          extractFromAutotools(ConfigureAc, s.meta), s.meta))
        AfterQmake(c, q) ==
            AfterMeson(c, q, TryManifest(Stat(MesonBuild),
                                         extractFromMeson(MesonBuild, q.meta), q.meta))
        AfterCMake(c) ==
            AfterQmake(c, TryManifest(Stat(QmakeConf),
                                      extractFromQmake(QmakeConf, c.meta), c.meta))
    IN AfterCMake(TryManifest(Stat(CMakeListsTxt),
                              extractFromCMake(CMakeListsTxt, m0), m0))

\* cpp: Extractor.Extract
CppExtract ==
    LET m0 == NewMetadata
        Labelled(c, q, s, a) ==
            IF c.used THEN Returned(<<PutLS(c.meta, "build_system", "CMake")>>, "")
            ELSE IF q.used THEN Returned(<<PutLS(q.meta, "build_system", "qmake")>>, "")
            ELSE IF s.used THEN Returned(<<PutLS(s.meta, "build_system", "Meson")>>, "")
            ELSE IF a.used THEN Returned(<<PutLS(a.meta, "build_system", "Autotools")>>, "")
            ELSE Returned(<<PutLS(a.meta, "build_system", "Makefile")>>, "")
        AfterMeson(c, q, s) ==
            Labelled(c, q, s, TryManifest(Stat(ConfigureAc),
                                          extractFromAutotools(ConfigureAc, s.meta), s.meta))
        AfterQmake(c, q) ==
            AfterMeson(c, q, TryManifest(Stat(MesonBuild),
                                         extractFromMeson(MesonBuild, q.meta), q.meta))
        AfterCMake(c) ==
            AfterQmake(c, TryManifest(Stat(QmakeConf),
                                      extractFromQmake(QmakeConf, c.meta), c.meta))
    IN AfterCMake(TryManifest(Stat(CMakeListsTxt),
                              extractFromCMake(CMakeListsTxt, m0), m0))

-----------------------------------------------------------------------------
(* More string helpers                                                     *)

IsPrefix(pre, s) == Len(pre) <= Len(s) /\ SubSeq(s, 1, Len(pre)) = pre

\* strings.TrimPrefix
TrimPrefix(s, pre) == IF IsPrefix(pre, s) THEN SubSeq(s, Len(pre) + 1, Len(s)) ELSE s

\* strings.Contains
Contains(s, sub) ==
    \E i \in 1..(Len(s) - Len(sub) + 1) : SubSeq(s, i, i + Len(sub) - 1) = sub

\* fmt.Sprintf("%s:%s:%s", a, b, c)
JoinColon3(a, b, c) == a \o <<":">> \o b \o <<":">> \o c

-----------------------------------------------------------------------------
(* Elixir                                                                  *)

E112 == <<"1", ".", "1", "2">>
E113 == <<"1", ".", "1", "3">>
E114 == <<"1", ".", "1", "4">>
E115 == <<"1", ".", "1", "5">>
E116 == <<"1", ".", "1", "6">>
E117 == <<"1", ".", "1", "7">>

\* elixir: generateElixirVersionMatrix
generateElixirVersionMatrix(requirement) ==
    LET v1 == TrimPrefix(requirement, <<"~", ">", " ">>)
        v2 == TrimPrefix(v1, <<">", "=", " ">>)
        version == TrimPrefix(v2, <<"=", "=", " ">>)
        parts == Split(version, ".")
    IN IF Len(parts) < 2 THEN <<E114, E115, E116>>
       ELSE IF parts[1] = <<"1">>
            THEN CASE parts[2] = <<"1", "6">> -> <<E116, E117>>
                   [] parts[2] = <<"1", "5">> -> <<E115, E116, E117>>
                   [] parts[2] = <<"1", "4">> -> <<E114, E115, E116>>
                   [] parts[2] = <<"1", "3">> -> <<E113, E114, E115>>
                   [] parts[2] = <<"1", "2">> -> <<E112, E113, E114>>
                   [] OTHER -> <<E114, E115, E116>>
            ELSE <<E114, E115, E116>>

PhoenixColon == <<"p", "h", "o", "e", "n", "i", "x", ":">>
NervesColon == <<"n", "e", "r", "v", "e", "s", ":">>
PlugColon == <<"p", "l", "u", "g", ":">>

\* elixir: detectFramework; "" when no dependency names a framework
RECURSIVE detectFramework(_)
detectFramework(dependencies) ==
    IF dependencies = <<>> THEN ""
    ELSE IF Contains(Head(dependencies), PhoenixColon) THEN "Phoenix"
    ELSE IF Contains(Head(dependencies), NervesColon) THEN "Nerves"
    ELSE IF Contains(Head(dependencies), PlugColon) THEN "Plug"
    ELSE detectFramework(Tail(dependencies))

\* A mix.exs line: the captures of the patterns on it (<<>> when a pattern
\* does not match), pkgOpen / linksOpen whether packageBlockRegex or
\* packageFuncRegex / linksRegex match, and which of ']', '[', '}', '%{'
\* the line contains; skip when the trimmed line starts with '#'
MixLine(skip, app, version, elixir, desc, pkgOpen, license, linksOpen, linkKey, linkVal, rbracket, lbracket, rbrace, pctbrace, depName, depVer) ==
    [skip |-> skip, app |-> app, version |-> version, elixir |-> elixir,
     desc |-> desc, pkgOpen |-> pkgOpen, license |-> license,
     linksOpen |-> linksOpen, linkKey |-> linkKey, linkVal |-> linkVal,
     rbracket |-> rbracket, lbracket |-> lbracket, rbrace |-> rbrace,
     pctbrace |-> pctbrace, depName |-> depName, depVer |-> depVer]

\* the body of the scan loop taking licenses and links from any line
MixStepUnscoped(acc, l) ==
    IF l.skip THEN acc
    ELSE
      LET Scoped(inPkg, inLinks) ==
              [m |-> [acc.m EXCEPT
                        !.Name = IF l.app # <<>> THEN l.app ELSE @,
                        !.Version = IF l.version # <<>> THEN l.version ELSE @,
                        !.VersionSource = IF l.version # <<>> THEN "mix.exs" ELSE @,
                        !.Description = IF l.desc # <<>> THEN l.desc ELSE @,
                        !.License = IF l.license # <<>> THEN l.license ELSE @,
                        !.Homepage = IF l.linkKey \in {"GitHub", "Homepage"}
                                     THEN l.linkVal ELSE @],
               elixirVersion |-> IF l.elixir # <<>> THEN l.elixir ELSE acc.elixirVersion,
               inPackageBlock |-> IF l.rbracket /\ inPkg /\ ~l.lbracket THEN FALSE ELSE inPkg,
               inLinksBlock |-> IF l.rbrace /\ inLinks /\ ~l.pctbrace THEN FALSE ELSE inLinks,
               deps |-> IF l.depName # <<>>
                        THEN Append(acc.deps, JoinColon(l.depName, l.depVer))
                        ELSE acc.deps]
      IN Scoped(acc.inPackageBlock \/ l.pkgOpen, acc.inLinksBlock \/ l.linksOpen)

\* the body of the scan loop of extractFromMixExs, for one line
MixStep(acc, l) ==
    IF l.skip THEN acc
    ELSE
      LET m1 == IF l.app # <<>> THEN [acc.m EXCEPT !.Name = l.app] ELSE acc.m
          m2 == IF l.version # <<>>
                THEN [m1 EXCEPT !.Version = l.version, !.VersionSource = "mix.exs"]
                ELSE m1
          ev == IF l.elixir # <<>> THEN l.elixir ELSE acc.elixirVersion
          m3 == IF l.desc # <<>> THEN [m2 EXCEPT !.Description = l.desc] ELSE m2
          inPkg == acc.inPackageBlock \/ l.pkgOpen
          m4 == IF inPkg /\ l.license # <<>> THEN [m3 EXCEPT !.License = l.license] ELSE m3
          inLinks == acc.inLinksBlock \/ l.linksOpen
          m5 == IF inLinks /\ l.linkKey \in {"GitHub", "Homepage"}
                THEN [m4 EXCEPT !.Homepage = l.linkVal]
                ELSE m4
      IN [m |-> m5,
          elixirVersion |-> ev,
          inPackageBlock |-> IF l.rbracket /\ inPkg /\ ~l.lbracket THEN FALSE ELSE inPkg,
          inLinksBlock |-> IF l.rbrace /\ inLinks /\ ~l.pctbrace THEN FALSE ELSE inLinks,
          deps |-> IF l.depName # <<>>
                   THEN Append(acc.deps, JoinColon(l.depName, l.depVer))
                   ELSE acc.deps]

RECURSIVE MixScan(_, _)
MixScan(lines, acc) ==
    IF lines = <<>> THEN acc ELSE MixScan(Tail(lines), MixStep(acc, Head(lines)))

MixStart(metadata) ==
    [m |-> metadata, elixirVersion |-> <<>>, inPackageBlock |-> FALSE,
     inLinksBlock |-> FALSE, deps |-> <<>>]

\* elixir: Extractor.extractFromMixExs
extractFromMixExs(p, metadata) ==
    IF ~CanOpen(p) THEN Parsed(metadata, OpenErr)
    ELSE
      LET Versioned(acc) ==
              IF acc.elixirVersion # <<>>
              THEN PutLS(PutLS(acc.m, "elixir_version", acc.elixirVersion),
                         "elixir_version_matrix",
                         generateElixirVersionMatrix(acc.elixirVersion))
              ELSE acc.m
          Framed(m2, framework) ==
              IF framework # "" THEN PutLS(m2, "framework", framework) ELSE m2
          Scanned(acc) ==
              IF ScanErr(p) # "" THEN Parsed(acc.m, ScanErr(p))
              ELSE Parsed(Framed(StoreDependencies(Versioned(acc), acc.deps),
                                 detectFramework(acc.deps)), "")
      IN Scanned(MixScan(fs[p].body, MixStart(metadata)))

\* elixir: Extractor.Extract
ElixirExtract ==
    LET m0 == NewMetadata
        Labelled(parsed) ==
            IF Stat(MixExs) /\ parsed.err # ""
            THEN Returned(<<>>, parsed.err)
            ELSE Returned(<<PutLS(IF Stat(MixExs) THEN parsed.meta ELSE m0,
                                  "build_tool", "Mix")>>, "")
    IN Labelled(extractFromMixExs(MixExs, m0))

-----------------------------------------------------------------------------
(* Scala                                                                   *)

S211 == <<"2", ".", "1", "1">>
S212 == <<"2", ".", "1", "2">>
S213 == <<"2", ".", "1", "3">>
S33 == <<"3", ".", "3">>
S34 == <<"3", ".", "4">>

\* generateScalaVersionMatrix listing the newer version first
generateScalaVersionMatrixNewestFirst(version) ==
    LET parts == Split(version, ".")
    IN IF Len(parts) < 2 THEN <<version>>
       ELSE IF parts[1] = <<"3">> THEN <<S34, S33>>
       ELSE IF parts[1] = <<"2">> /\ parts[2] = <<"1", "3">> THEN <<S213>>
       ELSE IF parts[1] = <<"2">> /\ parts[2] = <<"1", "2">> THEN <<S213, S212>>
       ELSE IF parts[1] = <<"2">> /\ parts[2] = <<"1", "1">> THEN <<S212, S211>>
       ELSE <<version>>

\* scala: generateScalaVersionMatrix
generateScalaVersionMatrix(version) ==
    LET parts == Split(version, ".")
    IN IF Len(parts) < 2 THEN <<version>>
       ELSE IF parts[1] = <<"3">> THEN <<S33, S34>>
       ELSE IF parts[1] = <<"2">> /\ parts[2] = <<"1", "3">> THEN <<S213>>
       ELSE IF parts[1] = <<"2">> /\ parts[2] = <<"1", "2">> THEN <<S212, S213>>
       ELSE IF parts[1] = <<"2">> /\ parts[2] = <<"1", "1">> THEN <<S211, S212>>
       ELSE <<version>>

\* A build.sbt line: the captures of the patterns on it; ldep is the capture
\* triple of libraryDependencyRegex, sdep that of standaloneDependencyRegex;
\* opener is whether the line contains both "libraryDependencies" and
\* "Seq("; opens and closes count its '(' and ')'; skip when the trimmed
\* line starts with "//"
SbtLine(skip, name, version, scalaVersion, org, ldep, opener, opens, closes, sdep) ==
    [skip |-> skip, name |-> name, version |-> version,
     scalaVersion |-> scalaVersion, org |-> org, desc |-> <<>>,
     homepage |-> <<>>, license |-> <<>>, ldep |-> ldep, opener |-> opener,
     opens |-> opens, closes |-> closes, sdep |-> sdep,
     decl |-> IF ldep # <<>> THEN <<ldep>> ELSE IF sdep # <<>> THEN <<sdep>> ELSE <<>>]

\* the line l with the dependencies more written after its first one:
\* FindStringSubmatch reports the leftmost match only, so the captures of l
\* are unchanged
SbtLineWith(l, more) == [l EXCEPT !.decl = l.decl \o more]

DepString(t) == JoinColon3(t[1], t[2], t[3])

\* the body of the scan loop leaving the block at the first line that holds
\* a closing parenthesis
SbtStepFirstCloser(acc, l) ==
    IF l.skip THEN acc
    ELSE
      LET Found(m, sv, d1) ==
              IF l.opener
              THEN [m |-> m, scalaVersion |-> sv, deps |-> d1,
                    inLibraryDependencies |-> l.closes = 0,
                    parenDepth |-> l.opens - l.closes]
              ELSE IF acc.inLibraryDependencies
              THEN [m |-> m, scalaVersion |-> sv,
                    deps |-> IF l.sdep # <<>> THEN Append(d1, DepString(l.sdep)) ELSE d1,
                    inLibraryDependencies |-> l.closes = 0,
                    parenDepth |-> IF acc.parenDepth + l.opens - l.closes <= 0 THEN 0
                                   ELSE acc.parenDepth + l.opens - l.closes]
              ELSE [m |-> m, scalaVersion |-> sv, deps |-> d1,
                    inLibraryDependencies |-> FALSE, parenDepth |-> acc.parenDepth]
      IN Found([(IF l.org # <<>> THEN PutLS(acc.m, "organization", l.org) ELSE acc.m)
                  EXCEPT !.Name = IF l.name # <<>> THEN l.name ELSE @,
                         !.Version = IF l.version # <<>> THEN l.version ELSE @,
                         !.VersionSource = IF l.version # <<>> THEN "build.sbt" ELSE @,
                         !.Description = IF l.desc # <<>> THEN l.desc ELSE @,
                         !.Homepage = IF l.homepage # <<>> THEN l.homepage ELSE @,
                         !.License = IF l.license # <<>> THEN l.license ELSE @],
               IF l.scalaVersion # <<>> THEN l.scalaVersion ELSE acc.scalaVersion,
               IF l.ldep # <<>> THEN Append(acc.deps, DepString(l.ldep)) ELSE acc.deps)

\* the body of the scan loop of extractFromBuildSbt, for one line
SbtStep(acc, l) ==
    IF l.skip THEN acc
    ELSE
      LET m1 == IF l.name # <<>> THEN [acc.m EXCEPT !.Name = l.name] ELSE acc.m
          m2 == IF l.version # <<>>
                THEN [m1 EXCEPT !.Version = l.version, !.VersionSource = "build.sbt"]
                ELSE m1
          sv == IF l.scalaVersion # <<>> THEN l.scalaVersion ELSE acc.scalaVersion
          m3 == IF l.org # <<>> THEN PutLS(m2, "organization", l.org) ELSE m2
          m4 == IF l.desc # <<>> THEN [m3 EXCEPT !.Description = l.desc] ELSE m3
          m5 == IF l.homepage # <<>> THEN [m4 EXCEPT !.Homepage = l.homepage] ELSE m4
          m6 == IF l.license # <<>> THEN [m5 EXCEPT !.License = l.license] ELSE m5
          d1 == IF l.ldep # <<>> THEN Append(acc.deps, DepString(l.ldep)) ELSE acc.deps
          depth == l.opens - l.closes
      IN IF l.opener
         THEN [m |-> m6, scalaVersion |-> sv, deps |-> d1,
               inLibraryDependencies |-> depth > 0, parenDepth |-> depth]
         ELSE IF acc.inLibraryDependencies
         THEN LET d2 == IF l.sdep # <<>> THEN Append(d1, DepString(l.sdep)) ELSE d1
                  pd == acc.parenDepth + depth
              IN [m |-> m6, scalaVersion |-> sv, deps |-> d2,
                  inLibraryDependencies |-> pd > 0,
                  parenDepth |-> IF pd <= 0 THEN 0 ELSE pd]
         ELSE [m |-> m6, scalaVersion |-> sv, deps |-> d1,
               inLibraryDependencies |-> FALSE, parenDepth |-> acc.parenDepth]

RECURSIVE SbtScan(_, _)
SbtScan(lines, acc) ==
    IF lines = <<>> THEN acc ELSE SbtScan(Tail(lines), SbtStep(acc, Head(lines)))

SbtStart(metadata) ==
    [m |-> metadata, scalaVersion |-> <<>>, deps |-> <<>>,
     inLibraryDependencies |-> FALSE, parenDepth |-> 0]

\* scala: Extractor.extractFromBuildSbt
extractFromBuildSbt(p, metadata) ==
    IF ~CanOpen(p) THEN Parsed(metadata, OpenErr)
    ELSE
      LET Versioned(acc) ==
              IF acc.scalaVersion # <<>>
              THEN PutLS(PutLS(acc.m, "scala_version", acc.scalaVersion),
                         "scala_version_matrix",
                         generateScalaVersionMatrix(acc.scalaVersion))
              ELSE acc.m
          Scanned(acc) ==
              IF ScanErr(p) # "" THEN Parsed(acc.m, ScanErr(p))
              ELSE Parsed(StoreDependencies(Versioned(acc), acc.deps), "")
      IN Scanned(SbtScan(fs[p].body, SbtStart(metadata)))

\* the first sbt.version capture in project/build.properties (<<>> if none)
RECURSIVE FirstSbtVersion(_)
FirstSbtVersion(lines) ==
    IF lines = <<>> THEN <<>>
    ELSE IF Head(lines).sbt # <<>> THEN Head(lines).sbt
    ELSE FirstSbtVersion(Tail(lines))

\* scala: Extractor.extractSbtVersion
extractSbtVersion(metadata) ==
    IF ~ReadFileOk(BuildProperties) THEN metadata
    ELSE LET v == FirstSbtVersion(fs[BuildProperties].body)
         IN IF v # <<>> THEN PutLS(metadata, "sbt_version", v) ELSE metadata

\* A build.sc line: object is the capture of objectRegex, scalaVersion that
\* of scalaVersionRegex, ivy the capture triple of ivyDepRegex
MillLine(skip, object, scalaVersion, ivy) ==
    [skip |-> skip, object |-> object, scalaVersion |-> scalaVersion, ivy |-> ivy]

MillStep(acc, l) ==
    IF l.skip THEN acc
    ELSE [m |-> IF l.object # <<>> /\ acc.m.Name = EmptyStr
                THEN [acc.m EXCEPT !.Name = l.object]
                ELSE acc.m,
          scalaVersion |-> IF l.scalaVersion # <<>> THEN l.scalaVersion
                           ELSE acc.scalaVersion,
          deps |-> IF l.ivy # <<>> THEN Append(acc.deps, DepString(l.ivy)) ELSE acc.deps]

RECURSIVE MillScan(_, _)
MillScan(lines, acc) ==
    IF lines = <<>> THEN acc ELSE MillScan(Tail(lines), MillStep(acc, Head(lines)))

\* scala: Extractor.extractFromMill
extractFromMill(p, metadata) ==
    IF ~CanOpen(p) THEN Parsed(metadata, OpenErr)
    ELSE
      LET Versioned(acc) ==
              IF acc.scalaVersion # <<>>
              THEN PutLS(acc.m, "scala_version", acc.scalaVersion)
              ELSE acc.m
          Scanned(acc) ==
              IF ScanErr(p) # "" THEN Parsed(acc.m, ScanErr(p))
              ELSE Parsed(StoreDependencies(Versioned(acc), acc.deps), "")
      IN Scanned(MillScan(fs[p].body,
                          [m |-> metadata, scalaVersion |-> <<>>, deps |-> <<>>]))

\* scala: Extractor.Extract
ScalaExtract ==
    LET m0 == NewMetadata
        Labelled(b, c) ==
            IF b.used
            THEN Returned(<<extractSbtVersion(PutLS(b.meta, "build_tool", "SBT"))>>, "")
            ELSE IF c.used THEN Returned(<<PutLS(c.meta, "build_tool", "Mill")>>, "")
            ELSE Returned(<<PutLS(c.meta, "build_tool", "unknown")>>, "")
        AfterSbt(b) ==
            Labelled(b, TryManifest(Stat(BuildSc), extractFromMill(BuildSc, b.meta), b.meta))
    IN AfterSbt(TryManifest(Stat(BuildSbt), extractFromBuildSbt(BuildSbt, m0), m0))

-----------------------------------------------------------------------------
(* Terraform, PHP, Swift: Extract as far as their tests describe it        *)

\* Extract of an extractor with one kind of manifest: an error naming the
\* missing manifest when there is none, the read error when it cannot be
\* read, otherwise a record that names its source
ManifestExtract(found, readable, notFound, source) ==
    IF ~found THEN Returned(<<>>, notFound)
    ELSE IF ~readable THEN Returned(<<>>, ReadErr)
    ELSE Returned(<<PutLS(NewMetadata, "metadata_source", source)>>, "")

\* the .tf files in the order filepath.Glob lists them (sorted by name)
ModulesTf == P("", "modules.tf", "tf")
VersionsTf == P("", "versions.tf", "tf")
TfScanOrder == <<MainTf, ModulesTf, VersionsTf>>

\* A .tf file is the sequence of its top-level declarations: k is
\* "provider" (an entry of required_providers), "module" or "resource",
\* name the provider or module name, or the resource type
TfDecl(k, name) == [k |-> k, name |-> name]

\* the names of the declarations of kind k in decls, in file order
RECURSIVE TfNames(_, _)
TfNames(decls, k) ==
    IF decls = <<>> THEN <<>>
    ELSE (IF Head(decls).k = k THEN <<Head(decls).name>> ELSE <<>>)
         \o TfNames(Tail(decls), k)

\* a frequency mapping with one more occurrence of each entry of names
RECURSIVE Tally(_, _)
Tally(freq, names) ==
    IF names = <<>> THEN freq
    ELSE Tally(MapPut(freq, Head(names),
                      IF Has(freq, Head(names)) THEN freq[Head(names)] + 1 ELSE 1),
               Tail(names))

\* a merge in which the resource types of a file replace the counts so far
MergeTfOverwriting(acc, decls) ==
    [providers |-> acc.providers \o TfNames(decls, "provider"),
     modules |-> acc.modules \o TfNames(decls, "module"),
     resources |-> acc.resources + Len(TfNames(decls, "resource")),
     types |-> LET t == Tally(EmptyMap, TfNames(decls, "resource"))
               IN [x \in (DOMAIN acc.types) \cup (DOMAIN t) |->
                     IF x \in DOMAIN t THEN t[x] ELSE acc.types[x]]]

\* the findings so far merged with those of one more file
MergeTf(acc, decls) ==
    [providers |-> acc.providers \o TfNames(decls, "provider"),
     modules |-> acc.modules \o TfNames(decls, "module"),
     resources |-> acc.resources + Len(TfNames(decls, "resource")),
     types |-> Tally(acc.types, TfNames(decls, "resource"))]

\* the findings of all .tf files of the directory
RECURSIVE TfScan(_, _)
TfScan(paths, acc) ==
    IF paths = <<>> THEN acc
    ELSE TfScan(Tail(paths),
                IF Stat(Head(paths)) THEN MergeTf(acc, fs[Head(paths)].body) ELSE acc)

\* the findings stored in the record, each with its count
TfStore(m, found) ==
    LET m1 == IF Len(found.providers) > 0
              THEN PutLS(PutLS(m, "providers", found.providers),
                         "provider_count", Len(found.providers))
              ELSE m
        m2 == IF Len(found.modules) > 0
              THEN PutLS(PutLS(m1, "modules", found.modules),
                         "module_count", Len(found.modules))
              ELSE m1
    IN IF found.resources > 0
       THEN PutLS(PutLS(m2, "resource_types", found.types),
                  "resource_count", found.resources)
       ELSE m2

TerraformExtract ==
    LET found == TfScan(TfScanOrder,
                        [providers |-> <<>>, modules |-> <<>>, resources |-> 0,
                         types |-> EmptyMap])
        Stored(r) ==
            IF r.meta = <<>> THEN r
            ELSE Returned(<<TfStore(r.meta[1], found)>>, "")
    IN Stored(ManifestExtract(Glob("", "tf") # {}, \A p \in Glob("", "tf") : ReadFileOk(p),
                              "no Terraform files found", "main.tf"))

\* A composer.json is the sequence of the entries of its "require" object,
\* each a package key and its constraint; the keys of an object are distinct
RequireEntry(key, constraint) == [key |-> key, constraint |-> constraint]

PhpKey == <<"p", "h", "p">>
ExtDash == <<"e", "x", "t", "-">>

\* the constraint of the php entry, as <<c>>; <<>> when there is none
RECURSIVE RequiresPhp(_)
RequiresPhp(require) ==
    IF require = <<>> THEN <<>>
    ELSE IF Head(require).key = PhpKey THEN <<Head(require).constraint>>
    ELSE RequiresPhp(Tail(require))

\* the names X of the entries ext-X
RECURSIVE PhpExtensions(_)
PhpExtensions(require) ==
    IF require = <<>> THEN <<>>
    ELSE (IF IsPrefix(ExtDash, Head(require).key)
          THEN <<TrimPrefix(Head(require).key, ExtDash)>> ELSE <<>>)
         \o PhpExtensions(Tail(require))

\* the packages of require, php included, as a mapping to their constraints
RECURSIVE PhpDependenciesWithPhp(_)
PhpDependenciesWithPhp(require) ==
    IF require = <<>> THEN EmptyMap
    ELSE IF IsPrefix(ExtDash, Head(require).key)
    THEN PhpDependenciesWithPhp(Tail(require))
    ELSE MapPut(PhpDependenciesWithPhp(Tail(require)),
                Head(require).key, Head(require).constraint)

\* the packages of require that are neither php nor an extension, as a
\* mapping to their constraints
RECURSIVE PhpDependencies(_)
PhpDependencies(require) ==
    IF require = <<>> THEN EmptyMap
    ELSE IF Head(require).key = PhpKey \/ IsPrefix(ExtDash, Head(require).key)
    THEN PhpDependencies(Tail(require))
    ELSE MapPut(PhpDependencies(Tail(require)),
                Head(require).key, Head(require).constraint)

\* the findings of require stored in the record, each list with its count
PhpStore(m, require) ==
    LET WithPhp(php, m0) ==
            IF php # <<>> THEN PutLS(m0, "requires_php", php[1]) ELSE m0
        WithDeps(deps, m1) ==
            IF deps # EmptyMap
            THEN PutLS(PutLS(m1, "dependencies", deps),
                       "dependency_count", Cardinality(DOMAIN deps))
            ELSE m1
        WithExts(exts, m2) ==
            IF exts # <<>>
            THEN PutLS(PutLS(m2, "php_extensions", exts), "extension_count", Len(exts))
            ELSE m2
    IN WithExts(PhpExtensions(require),
                WithDeps(PhpDependencies(require),
                         WithPhp(RequiresPhp(require), m)))

\* a record of the authors array of composer.json
AuthorRecord(name, email) == [name |-> name, email |-> email]

\* the members of a composer.json body: the records of authors, and the
\* entries of require
IsAuthor(e) == "name" \in DOMAIN e

IsRequire(e) == "key" \in DOMAIN e

\* the Authors strings of the author records: "Name <email>", or "Name"
\* without an email; a record without a name gives no string
RECURSIVE PhpAuthors(_)
PhpAuthors(authors) ==
    IF authors = <<>> THEN <<>>
    ELSE (IF Head(authors).name = EmptyStr THEN <<>>
          ELSE IF Head(authors).email = EmptyStr THEN <<Head(authors).name>>
          ELSE <<Head(authors).name \o <<" ", "<">> \o Head(authors).email \o <<">">>>>)
         \o PhpAuthors(Tail(authors))

PhpExtract ==
    LET Stored(r) ==
            IF r.meta = <<>> THEN r
            ELSE Returned(<<PhpStore([r.meta[1] EXCEPT !.Authors =
                                         PhpAuthors(SelectSeq(fs[ComposerJson].body, IsAuthor))],
                                     SelectSeq(fs[ComposerJson].body, IsRequire))>>, "")
    IN Stored(ManifestExtract(Stat(ComposerJson), ReadFileOk(ComposerJson),
                              "composer.json not found", "composer.json"))

SwiftExtract ==
    ManifestExtract(Stat(PackageSwift), ReadFileOk(PackageSwift),
                    "Package.swift not found", "Package.swift")

\* Extract of the extractor named n
ExtractOf(n) ==
    CASE n = "cpp" -> CppExtract
      [] n = "elixir" -> ElixirExtract
      [] n = "scala" -> ScalaExtract
      [] n = "terraform" -> TerraformExtract
      [] n = "php" -> PhpExtract
      [] n = "swift" -> SwiftExtract

-----------------------------------------------------------------------------
(* Registry                                                                *)

DefaultPriority == 1

\* extractor.NewBaseExtractor(name, priority)
NewBaseExtractor(name, priority) == [name |-> name, priority |-> priority]

\* <ecosystem>.NewExtractor()
NewExtractor(eco) == NewBaseExtractor(eco, DefaultPriority)

NoExtractorFound == "no extractor found for type"

\* the positions, in registration order from i on, whose Detect matches
RECURSIVE MatchesFrom(_, _)
MatchesFrom(reg, i) ==
    IF i > Len(reg) THEN <<>>
    ELSE (IF DetectOf(reg[i].name) THEN <<i>> ELSE <<>>) \o MatchesFrom(reg, i + 1)

\* Outranks with a later match of equal priority replacing the earlier one
OutranksOrTies(reg, c, b) == reg[c].priority >= reg[b].priority

\* whether a later match c replaces the best match b found so far
Outranks(reg, c, b) == reg[c].priority > reg[b].priority

\* descending Priority(), registration order among equals
RECURSIVE PickBest(_, _, _)
PickBest(reg, matches, best) ==
    IF matches = <<>> THEN best
    ELSE PickBest(reg, Tail(matches),
                  IF Outranks(reg, Head(matches), best) THEN Head(matches) ELSE best)

\* Resolve falling back to the first registered extractor when none matches
ResolveOrFirst(reg) ==
    LET matches == MatchesFrom(reg, 1)
    IN IF matches = <<>>
       THEN IF reg = <<>>
            THEN [ext |-> <<>>, idx |-> 0, err |-> NoExtractorFound]
            ELSE [ext |-> <<reg[1]>>, idx |-> 1, err |-> ""]
       ELSE LET b == PickBest(reg, Tail(matches), Head(matches))
            IN [ext |-> <<reg[b]>>, idx |-> b, err |-> ""]

\* Registry.Resolve(path)
Resolve(reg) ==
    LET matches == MatchesFrom(reg, 1)
    IN IF matches = <<>>
       THEN [ext |-> <<>>, idx |-> 0, err |-> NoExtractorFound]
       ELSE LET b == PickBest(reg, Tail(matches), Head(matches))
            IN [ext |-> <<reg[b]>>, idx |-> b, err |-> ""]

\* Register keeping one extractor per name: a later one replaces the earlier
RegisteredByName(reg, e) ==
    IF \E i \in 1..Len(reg) : reg[i].name = e.name
    THEN [i \in 1..Len(reg) |-> IF reg[i].name = e.name THEN e ELSE reg[i]]
    ELSE Append(reg, e)

\* Registry.Register(extractor): the collection after the call
Registered(reg, e) == Append(reg, e)

-----------------------------------------------------------------------------
(* Operations                                                              *)

\* the value an operation leaves behind: op names it, who the extractor it
\* was called on, ext/idx/err what Resolve returned, invoked the extractors
\* whose Extract ran, meta/err what Extract returned, val what Detect returned
\* prev is what the call before this one returned, when that call was an
\* Extract on the same extractor
Res(op, who, ext, idx, err, invoked, meta, val) ==
    [op |-> op, who |-> who, ext |-> ext, idx |-> idx, err |-> err,
     invoked |-> invoked, meta |-> meta, val |-> val,
     prev |-> IF op = "Extract" /\ res.op = "Extract" /\ res.who = who
              THEN <<[who |-> res.who, meta |-> res.meta, err |-> res.err]>>
              ELSE <<>>]

NoRes ==
    [op |-> "none", who |-> "", ext |-> <<>>, idx |-> 0, err |-> "",
     invoked |-> <<>>, meta |-> <<>>, val |-> FALSE, prev |-> <<>>]

fsVars == <<dirStatus, fs>>
procVars == <<phase, inited, calls, matrix, summary>>

\* the calls a caller runs side by side
CallIds == {"a", "b"}

\* a call that has not started: op is "idle", then "Extract" or "Resolve";
\* pc is the step it is at, m the ProjectMetadata it allocated, out what it
\* returned once done; overlapped tells that it ran while another call did
IdleCall ==
    [op |-> "idle", eco |-> "", pc |-> 0, m |-> NewMetadata, done |-> FALSE,
     out |-> [meta |-> <<>>, err |-> ""], ext |-> <<>>, overlapped |-> FALSE]

NoCalls == [c \in CallIds |-> IdleCall]

\* no generator call: generator names the generator, constraint is its
\* argument, versions the list it returned once done
NoMatrix == [generator |-> "", constraint |-> <<>>, versions |-> <<>>, done |-> FALSE]

\* no summary generation: common tells whether the metadata map has a "common"
\* entry, projectType is its project_type, tools the keys of the
\* environment's tool map in the order the map is ranged over, rows the
\* tool-version rows written once done
NoSummary == [common |-> FALSE, projectType |-> <<>>, tools |-> <<>>, rows |-> <<>>, done |-> FALSE]

\* extractor.RegisterExtractor(e)
Register(e) ==
    /\ Len(registry) < MaxRegistry
    /\ registry' = Registered(registry, e)
    /\ res' = Res("Register", e.name, <<e>>, 0, "", <<>>, <<>>, FALSE)
    /\ UNCHANGED <<fsVars, procVars>>

\* Registry.Resolve(path) called on its own
ResolveCall ==
    /\ LET Resolved(r) == Res("Resolve", "", r.ext, r.idx, r.err, <<>>, <<>>, FALSE)
       IN res' = Resolved(Resolve(registry))
    /\ UNCHANGED <<fsVars, procVars, registry>>

\* one extraction request: Resolve, then Extract of the extractor it chose
RequestResult(reg) ==
    LET Extracted(r, x) ==
            Res("Request", r.ext[1].name, r.ext, r.idx, x.err,
                <<r.ext[1].name>>, x.meta, FALSE)
        Resolved(r) ==
            IF r.err # ""
            THEN Res("Request", "", r.ext, r.idx, r.err, <<>>, <<>>, FALSE)
            ELSE Extracted(r, ExtractOf(r.ext[1].name))
    IN Resolved(Resolve(reg))

Request ==
    /\ res' = RequestResult(registry)
    /\ UNCHANGED <<fsVars, procVars, registry>>

\* init() registering its extractor again when the package is loaded again
PackageInitAgain(eco) ==
    /\ phase = "init"
    /\ Len(registry) <= Cardinality(Ecosystems)
    /\ inited' = inited \cup {eco}
    /\ registry' = Registered(registry, NewExtractor(eco))
    /\ res' = Res("Register", eco, <<NewExtractor(eco)>>, 0, "", <<>>, <<>>, FALSE)
    /\ UNCHANGED <<fsVars, phase, calls, matrix, summary>>

\* <ecosystem>.init(): runs once per package, before main
PackageInit(eco) ==
    /\ phase = "init"
    /\ eco \notin inited
    /\ inited' = inited \cup {eco}
    /\ registry' = Registered(registry, NewExtractor(eco))
    /\ res' = Res("Register", eco, <<NewExtractor(eco)>>, 0, "", <<>>, <<>>, FALSE)
    /\ UNCHANGED <<fsVars, phase, calls, matrix, summary>>

\* main starts when every package is initialised
MainStart ==
    /\ phase = "init"
    /\ inited = Ecosystems
    /\ phase' = "serving"
    /\ res' = NoRes
    /\ UNCHANGED <<fsVars, inited, registry, calls, matrix, summary>>

Serve ==
    /\ phase = "serving"
    /\ Request

\* e.Detect(path) called on its own
DetectCall(eco) ==
    /\ res' = Res("Detect", eco, <<>>, 0, "", <<>>, <<>>, DetectOf(eco))
    /\ UNCHANGED <<fsVars, procVars, registry>>

\* Extract on an extractor that keeps the dependency list of its last call
ExtractCallKeeping(eco) ==
    /\ LET kept == IF res.op = "Extract" /\ res.who = eco /\ res.meta # <<>>
                      /\ Has(res.meta[1].LanguageSpecific, "dependencies")
                   THEN res.meta[1].LanguageSpecific["dependencies"]
                   ELSE <<>>
           Kept(x) ==
               IF x.meta # <<>> /\ Has(x.meta[1].LanguageSpecific, "dependencies")
               THEN <<StoreDependencies(x.meta[1],
                         kept \o x.meta[1].LanguageSpecific["dependencies"])>>
               ELSE x.meta
           Extracted(x) == Res("Extract", eco, <<>>, 0, x.err, <<eco>>, Kept(x), FALSE)
       IN res' = Extracted(ExtractOf(eco))
    /\ UNCHANGED <<fsVars, procVars, registry>>

\* e.Extract(path) called on its own
ExtractCall(eco) ==
    /\ LET Extracted(x) == Res("Extract", eco, <<>>, 0, x.err, <<eco>>, x.meta, FALSE)
       IN res' = Extracted(ExtractOf(eco))
    /\ UNCHANGED <<fsVars, procVars, registry>>

-----------------------------------------------------------------------------
(* The inputs: manifest lines and project directories                      *)

NameA == <<"a">>
NameB == <<"b">>
Ver10 == <<"1", ".", "0">>
Ver20 == <<"2", ".", "0">>
Blank == <<" ">>
DepX == <<"x">>
DepXAtLeast1 == <<"x", " ", ">", "=", " ", "1">>
Phoenix == <<"p", "h", "o", "e", "n", "i", "x">>
Std17 == <<"1", "7">>
Elixir114 == <<"~", ">", " ", "1", ".", "1", "4">>
Scala2131 == <<"2", ".", "1", "3", ".", "1">>
Url == <<"u">>
Mit == <<"M", "I", "T">>
NoDep == <<>>
DepGAV == <<<<"g">>, <<"a">>, <<"v">>>>

CMakeLines ==
    { CMakeLine(FALSE, NameA, Ver10, <<>>, <<>>, <<>>, <<>>, <<>>),   \* project(a VERSION 1.0)
      CMakeLine(FALSE, NameB, <<>>, <<>>, Std17, <<>>, <<>>, <<>>),   \* project(b) set(CMAKE_CXX_STANDARD 17)
      CMakeLine(FALSE, <<>>, <<>>, <<>>, <<>>, <<>>, <<>>, DepX),     \* find_package(x)
      CMakeLine(TRUE, NameB, Ver20, <<>>, <<>>, <<>>, <<>>, <<>>) }   \* # project(b VERSION 2.0)

QmakeLines ==
    { QmakeLine(Ver10, Ver10),    \* MODULE_VERSION = 1.0
      QmakeLine(<<>>, Ver20),     \* VERSION = 2.0
      QmakeLine(<<>>, <<>>) }     \* CONFIG += qt

MesonDecls ==
    { MesonDecl("project", NameA, Ver10),     \* project('a', version: '1.0')
      MesonDecl("project", NameB, <<>>),      \* project('b')
      MesonDecl("dependency", DepX, <<>>) }   \* dependency('x')

AutotoolsLines ==
    { AutotoolsLine(FALSE, NameA, Ver10, <<>>),          \* AC_INIT([a], [1.0])
      AutotoolsLine(FALSE, NameA, Blank, <<>>),          \* AC_INIT([a], [ ])
      AutotoolsLine(FALSE, <<>>, <<>>, DepXAtLeast1),    \* PKG_CHECK_MODULES([X], [x >= 1])
      AutotoolsLine(TRUE, NameB, Ver20, <<>>) }          \* dnl AC_INIT([b], [2.0])

MixPlain(app, version, elixir, depName, depVer) ==
    MixLine(FALSE, app, version, elixir, <<>>, FALSE, <<>>, FALSE, "", <<>>,
            FALSE, FALSE, depName # <<>>, FALSE, depName, depVer)

MixLines ==
    { MixPlain(NameA, <<>>, <<>>, <<>>, <<>>),       \* app: :a,
      MixPlain(<<>>, Ver10, <<>>, <<>>, <<>>),       \* version: "1.0",
      MixPlain(<<>>, <<>>, Elixir114, <<>>, <<>>),   \* elixir: "~> 1.14",
      MixPlain(<<>>, <<>>, <<>>, Phoenix, Ver10),    \* {:phoenix, "1.0"},
      \* # version: "2.0"
      MixLine(TRUE, <<>>, Ver20, <<>>, <<>>, FALSE, <<>>, FALSE, "", <<>>,
              FALSE, FALSE, FALSE, FALSE, <<>>, <<>>) }

SbtLines ==
    { SbtLine(FALSE, NameA, Ver10, <<>>, <<>>, NoDep, FALSE, 0, 0, NoDep),     \* name := "a"; version := "1.0"
      SbtLine(FALSE, <<>>, <<>>, Scala2131, NameB, NoDep, FALSE, 0, 0, NoDep), \* scalaVersion := "2.13.1"; organization := "b"
      SbtLine(FALSE, <<>>, <<>>, <<>>, <<>>, DepGAV, TRUE, 1, 1, NoDep) }      \* libraryDependencies ++= Seq("g" %% "a" % "v")

MillLines ==
    { MillLine(FALSE, NameB, <<>>, NoDep),        \* object b extends ScalaModule {
      MillLine(FALSE, <<>>, Scala2131, NoDep),    \* def scalaVersion = "2.13.1"
      MillLine(FALSE, <<>>, <<>>, DepGAV) }       \* ivy"g::a:v"

BuildPropertiesLines == { [sbt |-> Ver10] }       \* sbt.version=1.0

\* the line variants a manifest may hold
LinesOf(p) ==
    CASE p = CMakeListsTxt -> CMakeLines
      [] p = QmakeConf -> QmakeLines
      [] p = MesonBuild -> MesonDecls
      [] p = ConfigureAc -> AutotoolsLines
      [] p = MixExs -> MixLines
      [] p = BuildSbt -> SbtLines
      [] p = BuildSc -> MillLines
      [] p = BuildProperties -> BuildPropertiesLines
      [] OTHER -> {}

BoundedSeq(S, n) == UNION { [1..k -> S] : k \in 0..n }

\* no file at the path
Absent == [kind |-> "file", st |-> "absent", body |-> <<>>]

Used(f) == IF f.st = "absent" THEN 0 ELSE 1

\* what may be at p when files more files and lines more lines are allowed:
\* nothing, an unopenable file, or a readable one, with or without a read
\* error after its lines
FileChoices(p, files, lines) ==
    {Absent}
    \cup (IF files <= 0 THEN {}
          ELSE {File("noopen", <<>>)}
               \cup { File(st, b) : st \in {"ok", "readerr"},
                                    b \in BoundedSeq(LinesOf(p), lines) })

\* the directory with file fls[i] at path paths[i], where there is one
Build(paths, fls) ==
    LET present == { i \in 1..Len(paths) : fls[i].st # "absent" }
    IN [p \in { paths[i] : i \in present } |->
          fls[CHOOSE i \in present : paths[i] = p]]

\* adds the directories the entries of f lie in
AddParents(f) ==
    [x \in (DOMAIN f) \cup UNION { ParentOf(p) : p \in DOMAIN f } |->
        IF x \in DOMAIN f THEN f[x] ELSE Dir]

Closed(f) == AddParents(AddParents(AddParents(f)))

\* f is a C/C++ project directory within the bounds
CppDir(f) ==
    \E a \in FileChoices(CMakeListsTxt, MaxFiles, MaxLines) :
    \E b \in FileChoices(QmakeConf, MaxFiles - Used(a), MaxLines - Len(a.body)) :
    \E c \in FileChoices(MesonBuild, MaxFiles - Used(a) - Used(b),
                         MaxLines - Len(a.body) - Len(b.body)) :
    \E d \in FileChoices(ConfigureAc, MaxFiles - Used(a) - Used(b) - Used(c),
                         MaxLines - Len(a.body) - Len(b.body) - Len(c.body)) :
        f = Build(<<CMakeListsTxt, QmakeConf, MesonBuild, ConfigureAc>>, <<a, b, c, d>>)

\* f is an Elixir project directory within the bounds
ElixirDir(f) ==
    \E a \in FileChoices(MixExs, MaxFiles, MaxLines) : f = Build(<<MixExs>>, <<a>>)

\* f is a Scala project directory within the bounds
ScalaDir(f) ==
    \E a \in FileChoices(BuildSbt, MaxFiles, MaxLines) :
    \E b \in FileChoices(BuildSc, MaxFiles - Used(a), MaxLines - Len(a.body)) :
    \E c \in FileChoices(BuildProperties, MaxFiles - Used(a) - Used(b),
                         MaxLines - Len(a.body) - Len(b.body)) :
        f = Closed(Build(<<BuildSbt, BuildSc, BuildProperties>>, <<a, b, c>>))

\* entries that matter by their presence alone
PlainEntries ==
    << <<MakefileP, File("ok", <<>>)>>,
       <<P("", "main.cpp", "cpp"), File("ok", <<>>)>>,
       <<P("src", "util.h", "h"), File("ok", <<>>)>>,
       <<P("include", "test.hpp", "hpp"), File("ok", <<>>)>>,
       <<P("lib", "a.ex", "ex"), File("ok", <<>>)>>,
       <<P("", "run.exs", "exs"), File("ok", <<>>)>>,
       <<P("src", "B.scala", "scala"), File("ok", <<>>)>>,
       <<SrcMainScalaDir, Dir>>,
       <<PomXml, File("ok", <<[scala |-> TRUE]>>)>>,
       <<PomXml, File("ok", <<[scala |-> FALSE]>>)>>,
       <<PomXml, File("noopen", <<>>)>>,
       <<MainTf, File("ok", <<>>)>>,
       <<MainTf, File("noopen", <<>>)>>,
       <<ComposerJson, File("ok", <<>>)>>,
       <<PackageSwift, File("ok", <<>>)>>,
       <<P("", "README.md", "md"), File("ok", <<>>)>> >>

\* the directories holding at most n of the entries es
RECURSIVE PlainOver(_, _)
PlainOver(es, n) ==
    IF es = <<>> THEN {EmptyMap}
    ELSE PlainOver(Tail(es), n)
         \cup (IF n = 0 THEN {}
               ELSE { MapPut(g, Head(es)[1], Head(es)[2]) : g \in PlainOver(Tail(es), n - 1) })

PlainDirs == { Closed(f) : f \in PlainOver(PlainEntries, MaxFiles) }

-----------------------------------------------------------------------------
(* Specifications                                                          *)

\* Detect and Extract of every extractor, called on any directory
InitExtractor ==
    /\ dirStatus \in {"ok", "missing", "denied"}
    /\ \/ dirStatus = "ok" /\ (CppDir(fs) \/ ElixirDir(fs) \/ ScalaDir(fs))
       \/ dirStatus \in {"ok", "denied"} /\ fs \in PlainDirs
       \/ dirStatus = "missing" /\ fs = EmptyMap
    /\ registry = <<>>
    /\ phase = "serving"
    /\ inited = {}
    /\ res = NoRes
    /\ calls = NoCalls
    /\ matrix = NoMatrix
    /\ summary = NoSummary

\* one call per run: no call changes the directory, so a second call would
\* start from the state the first started from
NextExtractor ==
    /\ res = NoRes
    /\ \/ \E eco \in Ecosystems : DetectCall(eco)
       \/ \E eco \in Ecosystems : ExtractCall(eco)

SpecExtractor == InitExtractor /\ [][NextExtractor]_vars

\* manifests and sources by which the registry's extractors tell projects apart
SampleEntries ==
    << <<CMakeListsTxt, File("ok", <<>>)>>,
       <<P("", "main.cpp", "cpp"), File("ok", <<>>)>>,
       <<MixExs, File("ok", <<>>)>>,
       <<BuildSbt, File("ok", <<>>)>>,
       <<ComposerJson, File("ok", <<>>)>>,
       <<PackageSwift, File("ok", <<>>)>>,
       <<MainTf, File("ok", <<>>)>>,
       <<P("", "README.md", "md"), File("ok", <<>>)>> >>

SampleDirs == PlainOver(SampleEntries, MaxFiles)

InitDir ==
    \/ dirStatus = "ok" /\ fs \in SampleDirs
    \/ dirStatus = "missing" /\ fs = EmptyMap

\* the extractors a caller may hand to Register
PoolNames == {"cpp", "elixir", "scala"}
ExtractorPool == { NewBaseExtractor(n, p) : n \in PoolNames, p \in 1..MaxPriority }

\* the registry used through its interface: any Register, Resolve and
\* request, in any order
InitRegistry ==
    /\ InitDir
    /\ registry = <<>>
    /\ phase = "serving"
    /\ inited = {}
    /\ res = NoRes
    /\ calls = NoCalls
    /\ matrix = NoMatrix
    /\ summary = NoSummary

NextRegistry ==
    \/ \E e \in ExtractorPool : Register(e)
    \/ ResolveCall
    \/ Request

SpecRegistry == InitRegistry /\ [][NextRegistry]_vars

\* the process: the packages' init() functions, then main serving requests
Init ==
    /\ InitDir
    /\ registry = <<>>
    /\ phase = "init"
    /\ inited = {}
    /\ res = NoRes
    /\ calls = NoCalls
    /\ matrix = NoMatrix
    /\ summary = NoSummary

Next ==
    \/ \E eco \in Ecosystems : PackageInit(eco)
    \/ MainStart
    \/ Serve

Spec == Init /\ [][Next]_vars

-----------------------------------------------------------------------------
(* Properties of the registry                                              *)

Matching(reg) == { i \in 1..Len(reg) : DetectOf(reg[i].name) }

\* C1: Resolve returns, among the registered extractors whose Detect accepts
\* the path, one of the greatest priority, and among those of that priority
\* the one registered first; it fails only when none matches.
C1_ResolvePicksBest ==
    res.op = "Resolve" =>
        /\ res.err = "" <=> Matching(registry) # {}
        /\ res.err = "" =>
             /\ res.idx \in Matching(registry)
             /\ res.ext = <<registry[res.idx]>>
             /\ \A j \in Matching(registry) :
                  /\ registry[j].priority <= registry[res.idx].priority
                  /\ j < res.idx => registry[j].priority < registry[res.idx].priority

\* two matching extractors of equal priority are registered and Resolve
\* returned the first
C1_Witness ==
    /\ res.op = "Resolve"
    /\ Len(registry) = 2
    /\ Matching(registry) = {1, 2}
    /\ registry[1].priority = registry[2].priority
    /\ registry[1].name # registry[2].name
    /\ res.idx = 1

\* C2: when no registered extractor's Detect accepts the path, Resolve fails
\* with NoExtractorFound and returns no extractor, and the request runs no
\* extractor's Extract.
C2_RegistryMiss ==
    (res.op \in {"Resolve", "Request"} /\ Matching(registry) = {}) =>
        /\ res.err = NoExtractorFound
        /\ res.ext = <<>>
        /\ res.invoked = <<>>
        /\ res.meta = <<>>

\* a request on a directory with files that no registered extractor accepts
C2_Witness ==
    /\ res.op = "Request"
    /\ registry # <<>>
    /\ dirStatus = "ok"
    /\ fs # EmptyMap
    /\ Matching(registry) = {}
    /\ res.err = NoExtractorFound

\* C3: Register appends its argument to the registry, keeping extractors of
\* equal name; Resolve, Detect and a request leave the registry as it is.
C3_RegistryFrame ==
    [][ /\ res'.op = "Register" => registry' = Append(registry, res'.ext[1])
        /\ res'.op \in {"Resolve", "Request", "Detect"} => registry' = registry
      ]_vars

\* two extractors of the same name are both held, and Resolve has run
C3_Witness ==
    /\ res.op = "Resolve"
    /\ Len(registry) = 2
    /\ registry[1].name = registry[2].name
    /\ registry[1] # registry[2]

\* how often eco's extractor is in the registry
TimesRegistered(eco) == Cardinality({ i \in 1..Len(registry) : registry[i].name = eco })

\* C4: each ecosystem package registers its extractor exactly once, during
\* initialisation; a request is served only after every package has
\* registered; once serving, the registry is not written again.
C4_RegisteredOnceBeforeServing ==
    /\ [](/\ \A eco \in Ecosystems :
               TimesRegistered(eco) = (IF eco \in inited THEN 1 ELSE 0)
          /\ phase = "serving" => inited = Ecosystems
          /\ res.op = "Request" => phase = "serving")
    /\ [][phase = "serving" => registry' = registry /\ phase' = "serving"]_vars

\* a request served by the extractor Resolve chose, after initialisation
C4_Witness ==
    /\ phase = "serving"
    /\ res.op = "Request"
    /\ res.invoked # <<>>
    /\ Len(registry) = Cardinality(Ecosystems)

-----------------------------------------------------------------------------
(* Properties of Extract and Detect                                        *)

\* Extract returned a record and a nil error
Succeeded == res.op = "Extract" /\ res.err = "" /\ res.meta # <<>>

\* C5: a record that Extract returns with a nil error has a non-nil
\* LanguageSpecific mapping, and a nil error always comes with a record.
C5_LanguageSpecificNotNil ==
    (res.op = "Extract" /\ res.err = "") =>
        /\ res.meta # <<>>
        /\ ~res.meta[1].nilMap
        /\ DOMAIN res.meta[1].LanguageSpecific # {}

\* the C/C++ fallback path returned a record
C5_Witness ==
    /\ Succeeded
    /\ res.who = "cpp"
    /\ res.meta[1].LanguageSpecific["build_system"] = "Makefile"
    /\ ~res.meta[1].nilMap

\* the count entries of LanguageSpecific, each with its collection
CountPairs == { <<"dependency_count", "dependencies">> }

C7_VersionSourceIffVersion ==
    Succeeded => (res.meta[1].VersionSource # "" <=> res.meta[1].Version # EmptyStr)

\* the manifests Extract of eco looks for, in the order it tries them
ManifestsOf(eco) ==
    CASE eco = "cpp" -> <<CMakeListsTxt, QmakeConf, MesonBuild, ConfigureAc>>
      [] eco = "elixir" -> <<MixExs>>
      [] eco = "scala" -> <<BuildSbt, BuildSc>>
      [] eco = "php" -> <<ComposerJson>>
      [] eco = "swift" -> <<PackageSwift>>
      [] OTHER -> <<>>

\* the directory holds a manifest of eco
HasManifest(eco) ==
    IF eco = "terraform" THEN Glob("", "tf") # {}
    ELSE \E i \in 1..Len(ManifestsOf(eco)) : Stat(ManifestsOf(eco)[i])

\* the extractors that answer a directory without manifest by an error
StrictExtractors == {"terraform", "php", "swift"}

NotFound(eco) ==
    CASE eco = "terraform" -> "no Terraform files found"
      [] eco = "php" -> "composer.json not found"
      [] eco = "swift" -> "Package.swift not found"

\* the record the other extractors return for such a directory
FallbackRecord(eco) ==
    CASE eco = "cpp" -> PutLS(NewMetadata, "build_system", "Makefile")
      [] eco = "elixir" -> PutLS(NewMetadata, "build_tool", "Mix")
      [] eco = "scala" -> PutLS(NewMetadata, "build_tool", "unknown")

Broken(p) == Stat(p) /\ ~ReadFileOk(p)

\* the first manifest of the chain that exists is broken
RECURSIVE FirstIsBroken(_)
FirstIsBroken(chain) ==
    IF chain = <<>> THEN FALSE
    ELSE IF Stat(Head(chain)) THEN Broken(Head(chain))
    ELSE FirstIsBroken(Tail(chain))

\* Extract of eco meets an error opening or reading a manifest
RaisesReadError(eco) ==
    IF eco = "terraform" THEN \E p \in Glob("", "tf") : Broken(p)
    ELSE FirstIsBroken(ManifestsOf(eco))

\* C9: when opening or reading a manifest fails inside Extract, Extract
\* returns an error and no record.
C9_ReadErrorsPropagate ==
    (res.op = "Extract" /\ RaisesReadError(res.who)) =>
        (res.err # "" /\ res.meta = <<>>)

\* the entries of the directory that are indicators of eco
Indicators(eco) ==
    { p \in DOMAIN fs :
        CASE eco = "cpp" ->
               \/ p \in {CMakeListsTxt, QmakeConf, MakefileP, ConfigureAc, MesonBuild}
               \/ (p[1] \in {"", "src"} /\ p[3] \in CppPatterns)
          [] eco = "elixir" ->
               \/ p = MixExs
               \/ (p[1] = "lib" /\ p[3] = "ex")
               \/ (p[1] = "" /\ p[3] \in {"ex", "exs"})
          [] eco = "scala" ->
               \/ p \in {BuildSbt, BuildProperties, BuildSc, SrcMainScalaDir}
               \/ (p = PomXml /\ \E i \in 1..Len(fs[p].body) : fs[p].body[i].scala)
               \/ (p[1] \in {"", "src"} /\ p[3] = "scala")
          [] eco = "terraform" -> p[1] = "" /\ p[3] = "tf"
          [] eco = "php" -> p = ComposerJson
          [] eco = "swift" -> p = PackageSwift
          [] OTHER -> FALSE }

\* C10: Detect returns false, and no error, when the directory does not
\* exist, cannot be read, or holds no indicator of the ecosystem; Detect
\* leaves the directory as it is.
C10_DetectIsTotal ==
    /\ [](res.op = "Detect" =>
            /\ res.err = ""
            /\ res.val \in BOOLEAN
            /\ (dirStatus # "ok" \/ Indicators(res.who) = {}) => res.val = FALSE)
    /\ [][res'.op = "Detect" => UNCHANGED fsVars]_vars

\* C/C++ Detect refusing a directory whose only source is include/test.hpp
C10_Witness ==
    /\ res.op = "Detect"
    /\ res.who = "cpp"
    /\ dirStatus = "ok"
    /\ P("include", "test.hpp", "hpp") \in DOMAIN fs
    /\ Indicators("cpp") = {}
    /\ res.val = FALSE

-----------------------------------------------------------------------------
(* Requests on projects with manifests                                     *)

\* the order in which the ecosystem packages register: by import path, as
\* the Go linker initialises independent packages, or the reverse order
RegistryOrders ==
    { << NewExtractor("cpp"), NewExtractor("elixir"), NewExtractor("php"),
         NewExtractor("scala"), NewExtractor("swift"), NewExtractor("terraform") >>,
      << NewExtractor("terraform"), NewExtractor("swift"), NewExtractor("scala"),
         NewExtractor("php"), NewExtractor("elixir"), NewExtractor("cpp") >> }

InitRequest ==
    /\ dirStatus \in {"ok", "missing", "denied"}
    /\ \/ dirStatus = "ok" /\ (CppDir(fs) \/ ElixirDir(fs) \/ ScalaDir(fs))
       \/ dirStatus \in {"ok", "denied"} /\ fs \in PlainDirs
       \/ dirStatus = "missing" /\ fs = EmptyMap
    /\ registry \in RegistryOrders
    /\ phase = "serving"
    /\ inited = Ecosystems
    /\ res = NoRes
    /\ calls = NoCalls
    /\ matrix = NoMatrix
    /\ summary = NoSummary

\* one request per run, served by the initialised process
NextRequest ==
    /\ res = NoRes
    /\ Serve

SpecRequest == InitRequest /\ [][NextRequest]_vars

\* every manifest file any extractor parses
AllManifests ==
    {CMakeListsTxt, QmakeConf, MesonBuild, ConfigureAc, MixExs, BuildSbt, BuildSc,
     ComposerJson, PackageSwift} \cup Glob("", "tf")

\* the ecosystem the manifest at p belongs to
EcosystemOf(p) ==
    CASE p \in {CMakeListsTxt, QmakeConf, MesonBuild, ConfigureAc} -> "cpp"
      [] p = MixExs -> "elixir"
      [] p \in {BuildSbt, BuildSc} -> "scala"
      [] p = ComposerJson -> "php"
      [] p = PackageSwift -> "swift"
      [] OTHER -> "terraform"

\* p is the one manifest of the directory, and it can be read
SoleManifest(p) ==
    /\ dirStatus = "ok"
    /\ { q \in AllManifests : Stat(q) } = {p}
    /\ ReadFileOk(p)

\* the lines of the manifest at p that are not comments
Live(p) == { i \in 1..Len(fs[p].body) : ~("skip" \in DOMAIN fs[p].body[i] /\ fs[p].body[i].skip) }

\* the project names the manifest at p declares
DeclaredNames(p) ==
    LET b == fs[p].body
    IN CASE p = CMakeListsTxt -> { b[i].proj : i \in Live(p) } \ {<<>>}
         [] p = MesonBuild -> { b[i].a : i \in { j \in Live(p) : b[j].k = "project" } }
         [] p = ConfigureAc -> { TrimSpace(b[i].acName) : i \in { j \in Live(p) : b[j].acName # <<>> } }
         [] p = MixExs -> { b[i].app : i \in Live(p) } \ {<<>>}
         [] p = BuildSbt -> { b[i].name : i \in Live(p) } \ {<<>>}
         [] p = BuildSc -> { b[i].object : i \in Live(p) } \ {<<>>}
         [] OTHER -> {}

\* the project versions the manifest at p declares
DeclaredVersions(p) ==
    LET b == fs[p].body
    IN CASE p = CMakeListsTxt -> { b[i].ver : i \in { j \in Live(p) : b[j].proj # <<>> } } \ {<<>>}
         [] p = QmakeConf -> ({ b[i].mv : i \in Live(p) } \cup { b[i].v : i \in Live(p) }) \ {<<>>}
         [] p = MesonBuild -> { b[i].b : i \in { j \in Live(p) : b[j].k = "project" } } \ {<<>>}
         [] p = ConfigureAc -> { TrimSpace(b[i].acVer) : i \in { j \in Live(p) : b[j].acName # <<>> } }
         [] p = MixExs -> { b[i].version : i \in Live(p) } \ {<<>>}
         [] p = BuildSbt -> { b[i].version : i \in Live(p) } \ {<<>>}
         [] OTHER -> {}

\* the extractors whose source is modelled line by line
ParsedEcosystems == {"cpp", "elixir", "scala"}

-----------------------------------------------------------------------------
(* Repeated calls on one directory                                         *)

\* Extract called again and again on the unchanged directory
NextRepeat == \E eco \in Ecosystems : ExtractCall(eco)

SpecRepeat == InitExtractor /\ [][NextRepeat]_vars

-----------------------------------------------------------------------------
(* Concurrent calls                                                        *)

MaxCallLines == 1

\* concurrent calls are run on directories with at most one manifest file,
\* of at most MaxCallLines lines
ManifestFiles == { p \in DOMAIN fs : fs[p].kind = "file" }

RECURSIVE TotalLines(_)
TotalLines(ps) ==
    IF ps = {} THEN 0
    ELSE LET p == CHOOSE q \in ps : TRUE
         IN Len(fs[p].body) + TotalLines(ps \ {p})

\* the calls other than c that have started and not returned
OthersRunning(c) == { o \in CallIds \ {c} : calls[o].op # "idle" /\ ~calls[o].done }

\* the ProjectMetadata of an extractor that keeps one record for all calls
CurrentShared(c) ==
    IF OthersRunning(c) # {}
    THEN calls[CHOOSE o \in OthersRunning(c) : TRUE].m
    ELSE calls[c].m

\* the ProjectMetadata call c works on: the one it allocated
Current(c) == calls[c].m

\* extractFromX for the i-th manifest Extract of eco tries
ParseRung(eco, i, m) ==
    CASE eco = "cpp" /\ i = 1 -> extractFromCMake(CMakeListsTxt, m)
      [] eco = "cpp" /\ i = 2 -> extractFromQmake(QmakeConf, m)
      [] eco = "cpp" /\ i = 3 -> extractFromMeson(MesonBuild, m)
      [] eco = "cpp" /\ i = 4 -> extractFromAutotools(ConfigureAc, m)
      [] eco = "elixir" -> extractFromMixExs(MixExs, m)
      [] eco = "scala" /\ i = 1 -> extractFromBuildSbt(BuildSbt, m)
      [] eco = "scala" /\ i = 2 -> extractFromMill(BuildSc, m)

\* the record Extract of eco returns when its i-th manifest parsed
RungReturn(eco, i, m) ==
    CASE eco = "cpp" /\ i = 1 -> PutLS(m, "build_system", "CMake")
      [] eco = "cpp" /\ i = 2 -> PutLS(m, "build_system", "qmake")
      [] eco = "cpp" /\ i = 3 -> PutLS(m, "build_system", "Meson")
      [] eco = "cpp" /\ i = 4 -> PutLS(m, "build_system", "Autotools")
      [] eco = "scala" /\ i = 1 -> extractSbtVersion(PutLS(m, "build_tool", "SBT"))
      [] eco = "scala" /\ i = 2 -> PutLS(m, "build_tool", "Mill")

\* the label Extract of eco sets in its last statement
LastLabel(eco, m) ==
    CASE eco = "cpp" -> PutLS(m, "build_system", "Makefile")
      [] eco = "elixir" -> PutLS(m, "build_tool", "Mix")
      [] eco = "scala" -> PutLS(m, "build_tool", "unknown")

\* call c after it returned out
Finished(c, out) ==
    [calls[c] EXCEPT !.done = TRUE, !.out = out,
                     !.overlapped = @ \/ OthersRunning(c) # {}]

\* call c after it moved to its next step with the record m
Advanced(c, m) ==
    [calls[c] EXCEPT !.pc = @ + 1, !.m = m,
                     !.overlapped = @ \/ OthersRunning(c) # {}]

\* a caller starts Extract(path) on the extractor of eco: the call allocates
\* its ProjectMetadata
BeginExtract(c, eco) ==
    /\ calls[c].op = "idle"
    /\ calls' = [calls EXCEPT ![c] =
                   [IdleCall EXCEPT !.op = "Extract", !.eco = eco, !.pc = 1,
                                    !.m = NewMetadata,
                                    !.overlapped = OthersRunning(c) # {}]]
    /\ UNCHANGED <<fsVars, registry, phase, inited, res, matrix, summary>>

\* a caller starts Resolve(path)
BeginResolve(c) ==
    /\ calls[c].op = "idle"
    /\ calls' = [calls EXCEPT ![c] =
                   [IdleCall EXCEPT !.op = "Resolve", !.pc = 1,
                                    !.overlapped = OthersRunning(c) # {}]]
    /\ UNCHANGED <<fsVars, registry, phase, inited, res, matrix, summary>>

\* one step of a running Extract of cpp, elixir or scala: the next manifest
\* of the chain, or the last statements after the chain
ExtractStep(c) ==
    LET eco == calls[c].eco
        i == calls[c].pc
        chain == ManifestsOf(eco)
        m == Current(c)
    IN /\ calls[c].op = "Extract" /\ ~calls[c].done
       /\ eco \in ParsedEcosystems
       /\ calls' = [calls EXCEPT ![c] =
            IF i > Len(chain) THEN Finished(c, Returned(<<LastLabel(eco, m)>>, ""))
            ELSE IF ~Stat(chain[i]) THEN Advanced(c, m)
            ELSE LET Parsing(parsed) ==
                         IF eco = "elixir"
                         THEN IF parsed.err # ""
                              THEN Finished(c, Returned(<<>>, parsed.err))
                              ELSE Advanced(c, parsed.meta)
                         ELSE IF parsed.err = ""
                              THEN Finished(c, Returned(<<RungReturn(eco, i, parsed.meta)>>, ""))
                              ELSE Advanced(c, parsed.meta)
                 IN Parsing(ParseRung(eco, i, m))]
       /\ UNCHANGED <<fsVars, registry, phase, inited, res, matrix, summary>>

\* a running Extract of terraform, php or swift returns
ExtractWhole(c) ==
    /\ calls[c].op = "Extract" /\ ~calls[c].done
    /\ calls[c].eco \notin ParsedEcosystems
    /\ calls' = [calls EXCEPT ![c] = Finished(c, ExtractOf(calls[c].eco))]
    /\ UNCHANGED <<fsVars, registry, phase, inited, res, matrix, summary>>

\* a running Resolve reads the registry and returns
ResolveStep(c) ==
    /\ calls[c].op = "Resolve" /\ ~calls[c].done
    /\ LET r == Resolve(registry)
       IN calls' = [calls EXCEPT ![c] =
                      [Finished(c, Returned(<<>>, r.err)) EXCEPT !.ext = r.ext]]
    /\ UNCHANGED <<fsVars, registry, phase, inited, res, matrix, summary>>

InitConcurrent ==
    /\ dirStatus \in {"ok", "missing", "denied"}
    /\ \/ /\ dirStatus = "ok"
          /\ CppDir(fs) \/ ElixirDir(fs) \/ ScalaDir(fs)
          /\ \A p, q \in ManifestFiles : p = q
          /\ TotalLines(ManifestFiles) <= MaxCallLines
       \/ dirStatus \in {"ok", "denied"} /\ fs \in SampleDirs
       \/ dirStatus = "missing" /\ fs = EmptyMap
    /\ registry \in RegistryOrders
    /\ phase = "serving"
    /\ inited = Ecosystems
    /\ res = NoRes
    /\ calls = NoCalls
    /\ matrix = NoMatrix
    /\ summary = NoSummary

NextConcurrent ==
    \E c \in CallIds :
        \/ \E eco \in Ecosystems : BeginExtract(c, eco)
        \/ BeginResolve(c)
        \/ ExtractStep(c)
        \/ ExtractWhole(c)
        \/ ResolveStep(c)

SpecConcurrent == InitConcurrent /\ [][NextConcurrent]_vars

\* C13: a call that ran side by side with other calls returns what it
\* returns when run alone on the directory: Extract the record and error of
\* a sequential Extract, Resolve the extractor of a sequential Resolve; and
\* no call writes the registry or the directory.
C13_ConcurrentCallsDoNotInterfere ==
    /\ [](\A c \in CallIds :
            calls[c].done =>
                IF calls[c].op = "Extract"
                THEN calls[c].out = ExtractOf(calls[c].eco)
                ELSE /\ calls[c].ext = Resolve(registry).ext
                     /\ calls[c].out.err = Resolve(registry).err)
    /\ [][UNCHANGED <<fsVars, registry>>]_vars

\* a C/C++ Extract that ran while another Extract on the same extractor did
\* returned a record with a project name
C13_Witness ==
    /\ calls["a"].done /\ calls["a"].overlapped
    /\ calls["a"].op = "Extract" /\ calls["a"].eco = "cpp"
    /\ calls["b"].op = "Extract" /\ calls["b"].eco = "cpp"
    /\ calls["b"].overlapped
    /\ calls["a"].out.meta # <<>>
    /\ calls["a"].out.meta[1].Name # EmptyStr

-----------------------------------------------------------------------------
(* Terraform directories with several files                                *)

MaxDecls == 3

TfDecls ==
    { TfDecl("provider", "aws"), TfDecl("provider", "google"),
      TfDecl("module", "vpc"),
      TfDecl("resource", "aws_instance"), TfDecl("resource", "aws_s3_bucket") }

\* what may be at a .tf path when decls more declarations are allowed
TfChoices(decls) == {Absent} \cup { File("ok", b) : b \in BoundedSeq(TfDecls, decls) }

\* f is a Terraform directory of up to three files within the bounds
TfDir(f) ==
    \E a \in TfChoices(MaxDecls) :
    \E b \in TfChoices(MaxDecls - Len(a.body)) :
    \E c \in TfChoices(MaxDecls - Len(a.body) - Len(b.body)) :
        f = Build(TfScanOrder, <<a, b, c>>)

InitTerraform ==
    /\ dirStatus = "ok"
    /\ TfDir(fs)
    /\ registry = <<>>
    /\ phase = "serving"
    /\ inited = {}
    /\ res = NoRes
    /\ calls = NoCalls
    /\ matrix = NoMatrix
    /\ summary = NoSummary

NextTerraform ==
    /\ res = NoRes
    /\ \/ DetectCall("terraform")
       \/ ExtractCall("terraform")

SpecTerraform == InitTerraform /\ [][NextTerraform]_vars

\* the declarations of kind k in the directory, each as <<file, position>>
Declared(k) ==
    { d \in UNION { {p} \X (1..Len(fs[p].body)) : p \in Glob("", "tf") } :
        fs[d[1]].body[d[2]].k = k }

\* the value of the count entry key in the returned record, 0 when absent
CountOf(key) ==
    IF Has(res.meta[1].LanguageSpecific, key)
    THEN res.meta[1].LanguageSpecific[key] ELSE 0

\* the names held by the list entry key of the returned record
ListedNames(key) ==
    IF Has(res.meta[1].LanguageSpecific, key)
    THEN { res.meta[1].LanguageSpecific[key][i] :
             i \in 1..Len(res.meta[1].LanguageSpecific[key]) }
    ELSE {}

\* the resource types of the returned record and their counts
ResourceTypes ==
    IF Has(res.meta[1].LanguageSpecific, "resource_types")
    THEN res.meta[1].LanguageSpecific["resource_types"] ELSE EmptyMap

RECURSIVE SumOver(_, _)
SumOver(f, S) ==
    IF S = {} THEN 0
    ELSE LET x == CHOOSE y \in S : TRUE IN f[x] + SumOver(f, S \ {x})

\* C14: Extract on a Terraform directory returns the providers, modules and
\* resources of all its .tf files: each count is the number of declarations
\* over all files, resource_types gives for each type its occurrences over
\* all files, and resource_count is the sum of the resource_types values.
C14_TerraformMerge ==
    (res.op = "Extract" /\ res.who = "terraform" /\ res.err = "" /\ res.meta # <<>>) =>
        /\ CountOf("provider_count") = Cardinality(Declared("provider"))
        /\ CountOf("module_count") = Cardinality(Declared("module"))
        /\ CountOf("resource_count") = Cardinality(Declared("resource"))
        /\ ListedNames("providers") = { fs[d[1]].body[d[2]].name : d \in Declared("provider") }
        /\ ListedNames("modules") = { fs[d[1]].body[d[2]].name : d \in Declared("module") }
        /\ DOMAIN ResourceTypes = { fs[d[1]].body[d[2]].name : d \in Declared("resource") }
        /\ \A t \in DOMAIN ResourceTypes :
             ResourceTypes[t] = Cardinality({ d \in Declared("resource") :
                                               fs[d[1]].body[d[2]].name = t })
        /\ CountOf("resource_count") = SumOver(ResourceTypes, DOMAIN ResourceTypes)

\* three files, one declaring a provider, one a module, and two declaring
\* a resource of the same type
C14_Witness ==
    /\ res.op = "Extract" /\ res.who = "terraform" /\ res.err = ""
    /\ Cardinality(Glob("", "tf")) = 3
    /\ \E d, e \in Declared("resource") :
         d[1] # e[1] /\ fs[d[1]].body[d[2]].name = fs[e[1]].body[e[2]].name
    /\ Declared("provider") # {}
    /\ CountOf("resource_count") = 2
    /\ ResourceTypes["aws_instance"] = 2

-----------------------------------------------------------------------------
(* build.sbt files with dependency blocks                                  *)

MaxSbtLines == 3

DepHBW == <<<<"h">>, <<"b">>, <<"w">>>>

SbtDepLines ==
    { SbtLine(FALSE, NameA, Ver10, <<>>, <<>>, NoDep, FALSE, 0, 0, NoDep),    \* name := "a"; version := "1.0"
      SbtLine(FALSE, <<>>, <<>>, <<>>, <<>>, DepGAV, TRUE, 1, 1, NoDep),      \* libraryDependencies ++= Seq("g" %% "a" % "v")
      SbtLine(FALSE, <<>>, <<>>, <<>>, <<>>, DepGAV, FALSE, 0, 0, NoDep),     \* libraryDependencies += "g" %% "a" % "v"
      SbtLineWith(SbtLine(FALSE, <<>>, <<>>, <<>>, <<>>, DepGAV, TRUE, 1, 1, NoDep),
                  <<DepHBW>>),                                                \* libraryDependencies ++= Seq("g" %% "a" % "v", "h" %% "b" % "w")
      SbtLine(FALSE, <<>>, <<>>, <<>>, <<>>, NoDep, TRUE, 1, 0, NoDep),       \* libraryDependencies ++= Seq(
      SbtLine(FALSE, <<>>, <<>>, <<>>, <<>>, NoDep, FALSE, 0, 0, DepGAV),     \* "g" %% "a" % "v",
      SbtLine(FALSE, <<>>, <<>>, <<>>, <<>>, NoDep, FALSE, 0, 1, DepHBW),     \* "h" %% "b" % "w")
      SbtLine(FALSE, <<>>, <<>>, <<>>, <<>>, NoDep, FALSE, 0, 1, NoDep),      \* )
      SbtLine(FALSE, <<>>, <<>>, <<>>, <<>>, NoDep, FALSE, 1, 0, NoDep),      \* ).map(
      SbtLine(FALSE, <<>>, <<>>, <<>>, <<>>, DepGAV, TRUE, 1, 2, NoDep) }     \* libraryDependencies ++= Seq("g" %% "a" % "v"))

InitSbt ==
    /\ dirStatus = "ok"
    /\ \E st \in {"ok", "readerr"} : \E b \in BoundedSeq(SbtDepLines, MaxSbtLines) :
         fs = Closed(Build(<<BuildSbt>>, <<File(st, b)>>))
    /\ registry = <<>>
    /\ phase = "serving"
    /\ inited = {}
    /\ res = NoRes
    /\ calls = NoCalls
    /\ matrix = NoMatrix
    /\ summary = NoSummary

NextSbt ==
    /\ res = NoRes
    /\ \/ DetectCall("scala")
       \/ ExtractCall("scala")

SpecSbt == InitSbt /\ [][NextSbt]_vars

\* line i of lines mentions libraryDependencies
OnAssignmentLine(lines, i) == lines[i].opener \/ lines[i].ldep # <<>>

\* the parentheses left open by lines j..k
RECURSIVE OpenParens(_, _, _)
OpenParens(lines, j, k) ==
    IF k < j THEN 0
    ELSE OpenParens(lines, j, k - 1)
         + (IF lines[k].skip THEN 0 ELSE lines[k].opens - lines[k].closes)

\* line i lies inside the Seq( block opened on an earlier line
InSeqBlock(lines, i) ==
    \E j \in 1..(i - 1) :
        /\ lines[j].opener /\ ~lines[j].skip
        /\ \A k \in (j + 1)..(i - 1) : ~(lines[k].opener /\ ~lines[k].skip)
        /\ \A k \in j..(i - 1) : OpenParens(lines, j, k) > 0

\* the dependencies the libraryDependencies assignments of lines declare, in
\* the order they are written
RECURSIVE DeclaredDependencies(_, _)
DeclaredDependencies(lines, n) ==
    IF n = 0 THEN <<>>
    ELSE DeclaredDependencies(lines, n - 1)
         \o (IF ~lines[n].skip /\ (OnAssignmentLine(lines, n) \/ InSeqBlock(lines, n))
             THEN [i \in 1..Len(lines[n].decl) |-> DepString(lines[n].decl[i])]
             ELSE <<>>)

\* the dependency list of the returned record
ReturnedDependencies ==
    IF Has(res.meta[1].LanguageSpecific, "dependencies")
    THEN res.meta[1].LanguageSpecific["dependencies"] ELSE <<>>

\* C15: Extract on a build.sbt that is read to its end returns every
\* dependency declared in a libraryDependencies assignment exactly once, on
\* the line of the assignment or on a following line of its Seq( block, and
\* dependency_count is their number.
C15_EveryDependencyOnce ==
    (/\ res.op = "Extract" /\ res.who = "scala" /\ res.err = "" /\ res.meta # <<>>
     /\ fs[BuildSbt].st = "ok") =>
        /\ ReturnedDependencies
             = DeclaredDependencies(fs[BuildSbt].body, Len(fs[BuildSbt].body))
        /\ CountOf("dependency_count") = Len(ReturnedDependencies)

-----------------------------------------------------------------------------
(* Version-matrix generators                                               *)
(* A version is the pair <<major, minor>> where numbers matter and the      *)
(* string "major.minor" where the generators handle text.                  *)

MaxMinor == 17

Digits == <<"0", "1", "2", "3", "4", "5", "6", "7", "8", "9">>

\* strconv.Itoa
RECURSIVE Itoa(_)
Itoa(n) ==
    IF n < 10 THEN <<Digits[n + 1]>>
    ELSE Itoa(n \div 10) \o <<Digits[(n % 10) + 1]>>

DigitValue(c) == (CHOOSE i \in 1..10 : Digits[i] = c) - 1

\* strconv.Atoi of an unsigned decimal; -1 when s is not one
RECURSIVE AtoiFrom(_, _)
AtoiFrom(s, n) ==
    IF s = <<>> THEN n
    ELSE IF \A i \in 1..10 : Digits[i] # Head(s) THEN -1
    ELSE AtoiFrom(Tail(s), 10 * n + DigitValue(Head(s)))

Atoi(s) == IF s = <<>> THEN -1 ELSE AtoiFrom(s, 0)

VersionString(v) == Itoa(v[1]) \o <<".">> \o Itoa(v[2])

VersionStrings(vs) == [i \in 1..Len(vs) |-> VersionString(vs[i])]

\* v is an older release line than w
Before(v, w) == v[1] < w[1] \/ (v[1] = w[1] /\ v[2] < w[2])

\* the constraint without its leading operator characters
RECURSIVE StripOperators(_)
StripOperators(c) ==
    IF c # <<>> /\ Head(c) \in {">", "<", "=", "~", "^", " "}
    THEN StripOperators(Tail(c)) ELSE c

\* the version a constraint starts from, as <<v>>; <<>> when the text after
\* the operator does not start with major.minor
FloorOf(c) ==
    LET Numbered(parts) ==
            IF Len(parts) < 2 \/ Atoi(parts[1]) < 0 \/ Atoi(parts[2]) < 0 THEN <<>>
            ELSE << <<Atoi(parts[1]), Atoi(parts[2])>> >>
    IN Numbered(Split(StripOperators(c), "."))

\* the release lines each generator's table holds, oldest first
SupportedLines(g) ==
    CASE g = "terraform" -> << <<1, 5>>, <<1, 6>>, <<1, 7>>, <<1, 8>>, <<1, 9>>, <<1, 10>> >>
      [] g = "php" -> << <<8, 1>>, <<8, 2>>, <<8, 3>> >>
      [] g = "swift" -> << <<5, 9>>, <<5, 10>>, <<5, 11>>, <<6, 0>>, <<6, 1>> >>
      [] g = "elixir" -> << <<1, 12>>, <<1, 13>>, <<1, 14>>, <<1, 15>>, <<1, 16>>, <<1, 17>> >>
      [] g = "scala" -> << <<2, 11>>, <<2, 12>>, <<2, 13>>, <<3, 3>>, <<3, 4>> >>

\* what the Terraform, PHP and Swift generators return for a constraint
\* they do not recognise
DefaultLines(g, c) ==
    CASE g = "terraform" -> << <<1, 8>>, <<1, 9>>, <<1, 10>> >>
      [] g = "php" -> << <<8, 1>>, <<8, 2>>, <<8, 3>> >>
      [] g = "swift" -> IF c = <<>> THEN << <<5, 9>>, <<5, 10>> >>
                        ELSE << <<5, 10>>, <<5, 11>>, <<6, 0>>, <<6, 1>> >>

IsLine(g, v) == \E i \in 1..Len(SupportedLines(g)) : SupportedLines(g)[i] = v

NotBefore(vs, v) == SelectSeq(vs, LAMBDA w : ~Before(w, v))

\* a generator that answers a floor older than its table with its default
\* list
SupportedMatrixUnclamped(g, c) ==
    LET From(f) ==
            IF f # <<>> /\ IsLine(g, f[1]) THEN NotBefore(SupportedLines(g), f[1])
            ELSE DefaultLines(g, c)
    IN VersionStrings(From(FloorOf(c)))

\* the Terraform, PHP and Swift generators: the table from the floor of the
\* constraint on, the whole table for an older floor, the default list for
\* anything else
SupportedMatrix(g, c) ==
    LET From(f) ==
            IF f = <<>> THEN DefaultLines(g, c)
            ELSE IF Before(f[1], SupportedLines(g)[1]) THEN SupportedLines(g)
            ELSE IF IsLine(g, f[1]) THEN NotBefore(SupportedLines(g), f[1])
            ELSE DefaultLines(g, c)
    IN VersionStrings(From(FloorOf(c)))

generateTerraformVersionMatrix(constraint) == SupportedMatrix("terraform", constraint)

generatePHPVersionMatrix(constraint) == SupportedMatrix("php", constraint)

generateSwiftVersionMatrix(toolsVersion) == SupportedMatrix("swift", toolsVersion)

Generators == {"terraform", "php", "swift", "elixir", "scala"}

GenerateOf(g, c) ==
    CASE g = "terraform" -> generateTerraformVersionMatrix(c)
      [] g = "php" -> generatePHPVersionMatrix(c)
      [] g = "swift" -> generateSwiftVersionMatrix(c)
      [] g = "elixir" -> generateElixirVersionMatrix(c)
      [] g = "scala" -> generateScalaVersionMatrix(c)

\* the operators a constraint may start with (none, ">= ", "~> ", "== ",
\* ">=", "^", "~")
Operators ==
    { <<>>, <<">", "=", " ">>, <<"~", ">", " ">>, <<"=", "=", " ">>,
      <<">", "=">>, <<"^">>, <<"~">> }

Majors == {0, 1, 2, 3, 5, 6, 7, 8, 99}

Latest == <<"l", "a", "t", "e", "s", "t">>

\* "", "latest", and an operator followed by major.minor or major.minor.0
Constraints ==
    {<<>>, Latest}
    \cup { op \o VersionString(<<major, minor>>) \o patch :
             op \in Operators, major \in Majors, minor \in 0..MaxMinor,
             patch \in {<<>>, <<".", "0">>} }

InitMatrix ==
    /\ dirStatus = "missing" /\ fs = EmptyMap
    /\ registry = <<>>
    /\ phase = "serving"
    /\ inited = {}
    /\ res = NoRes
    /\ calls = NoCalls
    /\ \E g \in Generators : \E c \in Constraints :
         matrix = [NoMatrix EXCEPT !.generator = g, !.constraint = c]
    /\ summary = NoSummary

\* the generator is called on the constraint
Generate ==
    /\ matrix.generator # "" /\ ~matrix.done
    /\ matrix' = [matrix EXCEPT !.versions = GenerateOf(matrix.generator, matrix.constraint),
                                !.done = TRUE]
    /\ UNCHANGED <<fsVars, registry, phase, inited, res, calls, summary>>

NextMatrix == Generate

SpecMatrix == InitMatrix /\ [][NextMatrix]_vars

Tabled == {"terraform", "php", "swift"}

T15to110 == VersionStrings(SupportedLines("terraform"))

\* C16: the Terraform, PHP and Swift generators answer a constraint whose
\* floor is older than their oldest supported line as they answer that
\* line; for Terraform that is 1.5, 1.6, 1.7, 1.8, 1.9, 1.10, for PHP it
\* starts at 8.1 and for Swift at 5.9.
C16_EolFloorClamped ==
    (/\ matrix.done /\ matrix.generator \in Tabled
     /\ FloorOf(matrix.constraint) # <<>>
     /\ Before(FloorOf(matrix.constraint)[1], SupportedLines(matrix.generator)[1])) =>
        /\ matrix.versions
             = GenerateOf(matrix.generator,
                          VersionString(SupportedLines(matrix.generator)[1]))
        /\ matrix.versions = VersionStrings(SupportedLines(matrix.generator))
        /\ matrix.generator = "terraform" =>
             /\ Len(matrix.versions) = 6
             /\ matrix.versions = GenerateOf("terraform", <<">", "=", " ", "1", ".", "5", ".", "0">>)

\* generateTerraformVersionMatrix(">= 0.15.0") has returned 1.5 .. 1.10
C16_Witness ==
    /\ matrix.done /\ matrix.generator = "terraform"
    /\ matrix.constraint = <<">", "=", " ", "0", ".", "1", "5", ".", "0">>
    /\ matrix.versions = T15to110
    /\ matrix.versions[1] = <<"1", ".", "5">> /\ matrix.versions[6] = <<"1", ".", "1", "0">>

\* C17: whatever the generator and the constraint, the returned list is
\* strictly ascending by numeric (major, minor) and holds no entry twice.
C17_AscendingNoDuplicates ==
    matrix.done =>
        \A i, j \in 1..Len(matrix.versions) :
            i < j =>
                /\ matrix.versions[i] # matrix.versions[j]
                /\ FloorOf(matrix.versions[i]) # <<>>
                /\ FloorOf(matrix.versions[j]) # <<>>
                /\ Before(FloorOf(matrix.versions[i])[1], FloorOf(matrix.versions[j])[1])

\* generateElixirVersionMatrix("~> 1.15") has returned 1.15, 1.16, 1.17
C17_Witness ==
    /\ matrix.done /\ matrix.generator = "elixir"
    /\ matrix.constraint = <<"~", ">", " ", "1", ".", "1", "5">>
    /\ matrix.versions = <<E115, E116, E117>>

\* the constraint names no supported release line: it is empty, has no
\* major.minor, or names a line newer than every line of the table
Unrecognised(g, c) ==
    \/ FloorOf(c) = <<>>
    \/ /\ ~IsLine(g, FloorOf(c)[1])
       /\ Before(SupportedLines(g)[Len(SupportedLines(g))], FloorOf(c)[1])

\* the last n entries of s
LastOf(s, n) == SubSeq(s, Len(s) - n + 1, Len(s))

\* C18: for every generator an empty constraint and an unrecognised one
\* give the same default list, which holds the most recent supported
\* versions and is shorter than the list of all supported versions.
C18_DefaultIsRecentAndShort ==
    (matrix.done /\ Unrecognised(matrix.generator, matrix.constraint)) =>
        /\ matrix.versions = GenerateOf(matrix.generator, <<>>)
        /\ Len(matrix.versions) < Len(SupportedLines(matrix.generator))
        /\ matrix.versions
             = LastOf(VersionStrings(SupportedLines(matrix.generator)), Len(matrix.versions))

\* the version the constraint starts from is one of the generator's lines
FloorSupported(g, c) == FloorOf(c) # <<>> /\ IsLine(g, FloorOf(c)[1])

\* C19: for every generator and every constraint whose floor is a supported
\* version, the list starts at the floor and holds no older version, and a
\* constraint with a higher supported floor gives no longer list.
C19_StartsAtSupportedFloor ==
    (matrix.done /\ FloorSupported(matrix.generator, matrix.constraint)) =>
        /\ matrix.versions # <<>>
        /\ matrix.versions[1] = VersionString(FloorOf(matrix.constraint)[1])
        /\ \A i \in 1..Len(matrix.versions) :
             /\ FloorOf(matrix.versions[i]) # <<>>
             /\ ~Before(FloorOf(matrix.versions[i])[1], FloorOf(matrix.constraint)[1])
        /\ \A c \in Constraints :
             (/\ FloorSupported(matrix.generator, c)
              /\ Before(FloorOf(matrix.constraint)[1], FloorOf(c)[1])) =>
                 Len(GenerateOf(matrix.generator, c)) <= Len(matrix.versions)

-----------------------------------------------------------------------------
(* composer.json files with a require object                               *)

MaxRequire == 3

Caret81 == <<"^", "8", ".", "1">>
Star == <<"*">>

\* php, ext-json, ext-mbstring, symfony/console, guzzlehttp/guzzle, and two
\* packages whose names only start like php and ext
RequireEntries ==
    { RequireEntry(PhpKey, Caret81),
      RequireEntry(ExtDash \o <<"j">>, Star),
      RequireEntry(ExtDash \o <<"m">>, Star),
      RequireEntry(<<"s", "/", "c">>, <<"^", "6">>),
      RequireEntry(<<"g", "/", "g">>, <<"^", "7">>),
      RequireEntry(<<"p", "h", "p", "x">>, Star),
      RequireEntry(<<"e", "x", "t", "r", "a">>, Star) }

\* the require objects of up to MaxRequire entries
RequireObjects ==
    { r \in BoundedSeq(RequireEntries, MaxRequire) :
        \A i, j \in 1..Len(r) : i # j => r[i].key # r[j].key }

InitComposer ==
    /\ dirStatus = "ok"
    /\ \E st \in {"ok", "noopen"} : \E r \in RequireObjects :
         fs = Closed(Build(<<ComposerJson>>, <<File(st, r)>>))
    /\ registry = <<>>
    /\ phase = "serving"
    /\ inited = {}
    /\ res = NoRes
    /\ calls = NoCalls
    /\ matrix = NoMatrix
    /\ summary = NoSummary

NextComposer ==
    /\ res = NoRes
    /\ \/ DetectCall("php")
       \/ ExtractCall("php")

SpecComposer == InitComposer /\ [][NextComposer]_vars

\* the keys of the require object of composer.json
RequireKeys == { fs[ComposerJson].body[i].key : i \in 1..Len(fs[ComposerJson].body) }

\* the dependencies mapping of the returned record
ReturnedPackages ==
    IF Has(res.meta[1].LanguageSpecific, "dependencies")
    THEN res.meta[1].LanguageSpecific["dependencies"] ELSE EmptyMap

\* C20: Extract on a composer.json splits the keys of require: php gives
\* requires_php, every ext-X gives X in php_extensions, every other key is
\* a key of dependencies; dependencies holds neither php nor an ext-* key,
\* and dependency_count + extension_count + (1 if php is required) is the
\* number of keys.
C20_RequirePartition ==
    (res.op = "Extract" /\ res.who = "php" /\ res.err = "" /\ res.meta # <<>>) =>
        /\ Has(res.meta[1].LanguageSpecific, "requires_php") <=> PhpKey \in RequireKeys
        /\ ListedNames("php_extensions")
             = { TrimPrefix(k, ExtDash) : k \in { x \in RequireKeys : IsPrefix(ExtDash, x) } }
        /\ DOMAIN ReturnedPackages
             = { k \in RequireKeys : k # PhpKey /\ ~IsPrefix(ExtDash, k) }
        /\ \A i \in 1..Len(fs[ComposerJson].body) :
             LET e == fs[ComposerJson].body[i]
             IN /\ e.key = PhpKey => res.meta[1].LanguageSpecific["requires_php"] = e.constraint
                /\ e.key \in DOMAIN ReturnedPackages => ReturnedPackages[e.key] = e.constraint
        /\ CountOf("dependency_count") = Cardinality(DOMAIN ReturnedPackages)
        /\ CountOf("extension_count") = Cardinality(ListedNames("php_extensions"))
        /\ CountOf("dependency_count") + CountOf("extension_count")
             + (IF PhpKey \in RequireKeys THEN 1 ELSE 0) = Cardinality(RequireKeys)

\* require holds php, an extension and a package
C20_Witness ==
    /\ res.op = "Extract" /\ res.who = "php" /\ res.err = "" /\ res.meta # <<>>
    /\ Cardinality(RequireKeys) = 3
    /\ PhpKey \in RequireKeys
    /\ CountOf("extension_count") = 1
    /\ CountOf("dependency_count") = 1
    /\ PhpKey \notin DOMAIN ReturnedPackages

-----------------------------------------------------------------------------
(* meson.build files with comments and strings                             *)

MaxMesonPieces == 4

\* the pieces a meson.build is put together from
MesonPieces ==
    { <<"executable(", "'", "a", "'", ")">>,                                \* executable('a')
      <<"project(", "'", "b", "'", ", version: ", "'", "1", "'", ")">>,     \* project('b', version: '1')
      <<"dependency(", "'", "x", "'", ")">>,                                \* dependency('x')
      <<"library(", "'", "l", "'", ")">>,                                   \* library('l')
      <<"#">>,                                                              \* #
      <<"'", "#", "'">>,                                                    \* '#'
      <<"'", "\\", "\\", "'">>,                                             \* '\\'
      <<"'", "\\", "'", "'">>,                                              \* '\''
      <<"\"", "'", "\"">>,                                                  \* "'"
      <<"\n">> }

RECURSIVE Flatten(_)
Flatten(ss) == IF ss = <<>> THEN <<>> ELSE Head(ss) \o Flatten(Tail(ss))

InitMeson ==
    /\ dirStatus = "ok"
    /\ \E st \in {"ok", "noopen"} : \E ps \in BoundedSeq(MesonPieces, MaxMesonPieces) :
         fs = Closed(Build(<<MesonBuild>>, <<File(st, <<MesonText(Flatten(ps))>>)>>))
    /\ registry = <<>>
    /\ phase = "serving"
    /\ inited = {}
    /\ res = NoRes
    /\ calls = NoCalls
    /\ matrix = NoMatrix
    /\ summary = NoSummary

NextMeson ==
    /\ res = NoRes
    /\ \/ DetectCall("cpp")
       \/ ExtractCall("cpp")

SpecMeson == InitMeson /\ [][NextMeson]_vars

\* the index of the first '#' of line, from index i on, that lies outside a
\* quoted string, 0 when there is none: a string runs from a quote to the
\* next quote of the same kind that no backslash escapes
RECURSIVE HashOutsideStrings(_, _, _, _)
HashOutsideStrings(line, i, quote, escaped) ==
    IF i > Len(line) THEN 0
    ELSE IF quote = ""
         THEN IF line[i] = "#" THEN i
              ELSE HashOutsideStrings(line, i + 1,
                       IF line[i] \in {"'", "\""} THEN line[i] ELSE "", FALSE)
    ELSE IF escaped THEN HashOutsideStrings(line, i + 1, quote, FALSE)
    ELSE IF line[i] = "\\" THEN HashOutsideStrings(line, i + 1, quote, TRUE)
    ELSE HashOutsideStrings(line, i + 1, IF line[i] = quote THEN "" ELSE quote, FALSE)

\* the lines without the text from that '#' on
RECURSIVE WithoutComments(_)
WithoutComments(lines) ==
    IF lines = <<>> THEN <<>>
    ELSE LET Kept(line, hash) == IF hash > 0 THEN SubSeq(line, 1, hash - 1) ELSE line
         IN Kept(Head(lines), HashOutsideStrings(Head(lines), 1, "", FALSE))
            \o <<"\n">> \o WithoutComments(Tail(lines))

\* the content of the meson.build
MesonContent == fs[MesonBuild].body[1].a

\* the list the returned record holds under key
ReturnedList(key) ==
    IF Has(res.meta[1].LanguageSpecific, key)
    THEN res.meta[1].LanguageSpecific[key] ELSE <<>>

\* the returned record holds what the declarations decls give
HoldsDeclarations(decls) ==
    /\ res.meta[1].Name
         = (IF MesonNames(decls, "project") # <<>>
            THEN Head(MesonNames(decls, "project")) ELSE EmptyStr)
    /\ res.meta[1].Version
         = (IF MesonVersions(decls) # <<>> THEN Head(MesonVersions(decls)) ELSE EmptyStr)
    /\ ReturnedList("executables") = MesonNames(decls, "executable")
    /\ ReturnedList("libraries") = MesonNames(decls, "library")
    /\ ReturnedList("dependencies") = MesonNames(decls, "dependency")

\* C21: stripMesonComments removes, on each line, exactly the text from the
\* first '#' outside a quoted string to the end of the line, and Extract
\* returns the name, version, executables, libraries and dependencies of the
\* declarations that stand outside those comments.
C21_CommentsStripped ==
    (/\ res.op = "Extract" /\ res.who = "cpp" /\ res.err = "" /\ res.meta # <<>>
     /\ fs[MesonBuild].st = "ok") =>
        /\ stripMesonComments(MesonContent)
             = WithoutComments(Split(MesonContent, "\n"))
        /\ HoldsDeclarations(MesonFind(WithoutComments(Split(MesonContent, "\n"))))

-----------------------------------------------------------------------------
(* .qmake.conf files with both kinds of version assignment                 *)

\* the label of the returned record
BuildSystem == res.meta[1].LanguageSpecific["build_system"]

\* the lines of the .qmake.conf that assign MODULE_VERSION, and those that
\* assign plain VERSION
ModuleVersionLines == { i \in 1..Len(fs[QmakeConf].body) : fs[QmakeConf].body[i].mv # <<>> }

PlainVersionLines ==
    { i \in 1..Len(fs[QmakeConf].body) :
        fs[QmakeConf].body[i].mv = <<>> /\ fs[QmakeConf].body[i].v # <<>> }

\* Extract has returned the record of a .qmake.conf that assigns both
BothAssigned ==
    /\ res.op = "Extract" /\ res.who = "cpp" /\ res.err = "" /\ res.meta # <<>>
    /\ BuildSystem = "qmake"
    /\ ModuleVersionLines # {} /\ PlainVersionLines # {}

\* C22: when the .qmake.conf Extract parses assigns both MODULE_VERSION and
\* plain VERSION, in either order, the returned Version is the value of
\* MODULE_VERSION and VersionSource is ".qmake.conf".
C22_ModuleVersionPreferred ==
    BothAssigned =>
        /\ res.meta[1].Version = fs[QmakeConf].body[Max(ModuleVersionLines)].mv
        /\ res.meta[1].Version
             \notin { fs[QmakeConf].body[i].v : i \in PlainVersionLines }
        /\ res.meta[1].VersionSource = ".qmake.conf"

\* the plain VERSION assignment comes first and MODULE_VERSION still wins
C22_Witness ==
    /\ BothAssigned
    /\ fs[QmakeConf].body = <<QmakeLine(<<>>, Ver20), QmakeLine(Ver10, Ver10)>>
    /\ res.meta[1].Version = Ver10

-----------------------------------------------------------------------------
(* The manifest the C/C++ Extract chooses                                  *)

CppManifests == <<CMakeListsTxt, QmakeConf, MesonBuild, ConfigureAc>>

CppLabels == <<"CMake", "qmake", "Meson", "Autotools">>

\* the manifest at p exists and is read to its end without an error
ExistsAndParses(p) == p \in DOMAIN fs /\ fs[p].kind = "file" /\ fs[p].st = "ok"

\* the places in the fixed order whose manifest exists and parses
Usable == { i \in 1..Len(CppManifests) : ExistsAndParses(CppManifests[i]) }

\* C23: the C/C++ Extract labels its record after the first of
\* CMakeLists.txt, .qmake.conf, meson.build, configure.ac that exists and
\* parses, and "Makefile" only when there is none; build_system is always one
\* of the five labels.
C23_ManifestOrder ==
    (res.op = "Extract" /\ res.who = "cpp") =>
        /\ res.err = "" /\ res.meta # <<>>
        /\ Has(res.meta[1].LanguageSpecific, "build_system")
        /\ BuildSystem \in {"CMake", "qmake", "Meson", "Autotools", "Makefile"}
        /\ BuildSystem = (IF Usable = {} THEN "Makefile" ELSE CppLabels[Min(Usable)])

\* a CMakeLists.txt that exists but does not parse is passed over for the
\* meson.build behind it
C23_Witness ==
    /\ res.op = "Extract" /\ res.who = "cpp"
    /\ CMakeListsTxt \in DOMAIN fs /\ ~ExistsAndParses(CMakeListsTxt)
    /\ QmakeConf \notin DOMAIN fs
    /\ ExistsAndParses(MesonBuild)
    /\ BuildSystem = "Meson"

-----------------------------------------------------------------------------
(* composer.json files with an authors array                               *)

MaxAuthors == 3

John == <<"J">>
Jane == <<"S">>
JohnAt == <<"j", "@">>
ContactAt == <<"c", "@">>

\* John Doe with his address, Jane Smith without one, an address without a
\* name, and an empty record
AuthorRecords ==
    { AuthorRecord(John, JohnAt),
      AuthorRecord(Jane, EmptyStr),
      AuthorRecord(EmptyStr, ContactAt),
      AuthorRecord(EmptyStr, EmptyStr) }

InitAuthors ==
    /\ dirStatus = "ok"
    /\ \E st \in {"ok", "noopen"} : \E a \in BoundedSeq(AuthorRecords, MaxAuthors) :
         fs = Closed(Build(<<ComposerJson>>, <<File(st, a)>>))
    /\ registry = <<>>
    /\ phase = "serving"
    /\ inited = {}
    /\ res = NoRes
    /\ calls = NoCalls
    /\ matrix = NoMatrix
    /\ summary = NoSummary

NextAuthors ==
    /\ res = NoRes
    /\ \/ DetectCall("php")
       \/ ExtractCall("php")

SpecAuthors == InitAuthors /\ [][NextAuthors]_vars

\* "Name <email>", "Name" or "<email>", by the fields that are present
FormattedAuthor(a) ==
    IF a.name # EmptyStr /\ a.email # EmptyStr
    THEN a.name \o <<" ", "<">> \o a.email \o <<">">>
    ELSE IF a.name # EmptyStr THEN a.name
    ELSE <<"<">> \o a.email \o <<">">>

\* one string for every record with a name or an email, in declaration order
RECURSIVE FormattedAuthors(_)
FormattedAuthors(authors) ==
    IF authors = <<>> THEN <<>>
    ELSE (IF Head(authors).name = EmptyStr /\ Head(authors).email = EmptyStr
          THEN <<>> ELSE <<FormattedAuthor(Head(authors))>>)
         \o FormattedAuthors(Tail(authors))

\* C24: Authors holds, in declaration order, one string for every author
\* record with a name or an email: "Name <email>", "Name" or "<email>"; only
\* the records with neither are dropped.
C24_AuthorsFormatted ==
    (res.op = "Extract" /\ res.who = "php" /\ res.err = "" /\ res.meta # <<>>) =>
        res.meta[1].Authors = FormattedAuthors(fs[ComposerJson].body)

-----------------------------------------------------------------------------
(* mix.exs files with package and links blocks                             *)

MaxMixLines == 4

Apache == <<"A">>
DocsUrl == <<"d">>

\* a line that holds none of the fields a MixPlain line may hold
MixBlock(skip, pkgOpen, license, linksOpen, linkKey, linkVal, rbracket, lbracket, rbrace, pctbrace) ==
    MixLine(skip, <<>>, <<>>, <<>>, <<>>, pkgOpen, license, linksOpen, linkKey, linkVal,
            rbracket, lbracket, rbrace, pctbrace, <<>>, <<>>)

MixBlockLines ==
    { MixBlock(FALSE, TRUE, <<>>, FALSE, "", <<>>, FALSE, TRUE, FALSE, FALSE),       \* package: [
      MixBlock(FALSE, TRUE, <<>>, FALSE, "", <<>>, FALSE, FALSE, FALSE, FALSE),      \* defp package do
      MixBlock(FALSE, FALSE, Mit, FALSE, "", <<>>, TRUE, TRUE, FALSE, FALSE),        \* licenses: ["MIT"],
      MixBlock(FALSE, TRUE, Apache, FALSE, "", <<>>, TRUE, TRUE, FALSE, FALSE),      \* package: [licenses: ["A"]],
      MixBlock(FALSE, FALSE, <<>>, FALSE, "", <<>>, TRUE, FALSE, FALSE, FALSE),      \* ]
      MixBlock(FALSE, FALSE, <<>>, TRUE, "", <<>>, FALSE, FALSE, FALSE, TRUE),       \* links: %{
      MixBlock(FALSE, FALSE, <<>>, FALSE, "GitHub", Url, FALSE, FALSE, FALSE, FALSE),   \* "GitHub" => "u",
      MixBlock(FALSE, FALSE, <<>>, FALSE, "Docs", DocsUrl, FALSE, FALSE, FALSE, FALSE), \* "Docs" => "d",
      MixBlock(FALSE, FALSE, <<>>, TRUE, "Homepage", Url, FALSE, FALSE, TRUE, TRUE), \* links: %{"Homepage" => "u"}
      MixBlock(FALSE, FALSE, <<>>, FALSE, "", <<>>, FALSE, FALSE, TRUE, FALSE),      \* }
      MixBlock(TRUE, FALSE, Mit, FALSE, "", <<>>, TRUE, TRUE, FALSE, FALSE) }        \* # licenses: ["MIT"]

InitMix ==
    /\ dirStatus = "ok"
    /\ \E b \in BoundedSeq(MixBlockLines, MaxMixLines) :
         fs = Closed(Build(<<MixExs>>, <<File("ok", b)>>))
    /\ registry = <<>>
    /\ phase = "serving"
    /\ inited = {}
    /\ res = NoRes
    /\ calls = NoCalls
    /\ matrix = NoMatrix
    /\ summary = NoSummary

NextMix ==
    /\ res = NoRes
    /\ \/ DetectCall("elixir")
       \/ ExtractCall("elixir")

SpecMix == InitMix /\ [][NextMix]_vars

\* line k of lines is processed and closes the package block, or the links
\* block
ClosesPackage(lines, k) == ~lines[k].skip /\ lines[k].rbracket /\ ~lines[k].lbracket

ClosesLinks(lines, k) == ~lines[k].skip /\ lines[k].rbrace /\ ~lines[k].pctbrace

\* the package flag is set while line i is processed: a line up to i opened
\* the block and no line since, before i, closed it
PackageFlag(lines, i) ==
    \E j \in 1..i : /\ ~lines[j].skip /\ lines[j].pkgOpen
                    /\ \A k \in j..(i - 1) : ~ClosesPackage(lines, k)

LinksFlag(lines, i) ==
    \E j \in 1..i : /\ ~lines[j].skip /\ lines[j].linksOpen
                    /\ \A k \in j..(i - 1) : ~ClosesLinks(lines, k)

\* the lines that may assign License, and Homepage
LicenseLines(lines) ==
    { i \in 1..Len(lines) : ~lines[i].skip /\ lines[i].license # <<>> /\ PackageFlag(lines, i) }

HomepageLines(lines) ==
    { i \in 1..Len(lines) : /\ ~lines[i].skip /\ lines[i].linkKey \in {"GitHub", "Homepage"}
                            /\ LinksFlag(lines, i) }

\* C26: License comes only from a licenses entry on a line processed while
\* the package flag is set and Homepage only from a "GitHub" or "Homepage"
\* pair on a line processed while the links flag is set, the flags set and
\* cleared by the opening and closing lines; entries outside the blocks set
\* neither.
C26_BlockScoped ==
    (res.op = "Extract" /\ res.who = "elixir" /\ res.err = "" /\ res.meta # <<>>) =>
        LET lines == fs[MixExs].body
        IN /\ res.meta[1].License
                = (IF LicenseLines(lines) = {} THEN EmptyStr
                   ELSE lines[Max(LicenseLines(lines))].license)
           /\ res.meta[1].Homepage
                = (IF HomepageLines(lines) = {} THEN EmptyStr
                   ELSE lines[Max(HomepageLines(lines))].linkVal)

\* the package block is opened and closed before the licenses entry, the
\* links block closed before the pair: neither field is set
C26_Witness ==
    /\ res.op = "Extract" /\ res.who = "elixir" /\ res.err = "" /\ res.meta # <<>>
    /\ Len(fs[MixExs].body) = 4
    /\ fs[MixExs].body[1].pkgOpen /\ ~fs[MixExs].body[1].skip
    /\ ClosesPackage(fs[MixExs].body, 2)
    /\ fs[MixExs].body[3].license = Mit /\ ~fs[MixExs].body[3].skip
    /\ fs[MixExs].body[4].linkKey = "GitHub"
    /\ res.meta[1].License = EmptyStr
    /\ res.meta[1].Homepage = EmptyStr

-----------------------------------------------------------------------------
(* The block tracker of the build.sbt scan                                 *)

\* the state of the scan loop after the first k lines
SbtAfter(lines, k) == SbtScan(SubSeq(lines, 1, k), SbtStart(NewMetadata))

\* what the scan collects when the in-block pattern is read on exactly the
\* lines that follow an opening line while its parentheses are open
RECURSIVE BlockDependencies(_, _)
BlockDependencies(lines, n) ==
    IF n = 0 THEN <<>>
    ELSE BlockDependencies(lines, n - 1)
         \o (IF lines[n].skip THEN <<>>
             ELSE IF lines[n].ldep # <<>> THEN <<DepString(lines[n].ldep)>>
             ELSE IF ~lines[n].opener /\ InSeqBlock(lines, n) /\ lines[n].sdep # <<>>
             THEN <<DepString(lines[n].sdep)>>
             ELSE <<>>)

\* C27: after each line of build.sbt, inLibraryDependencies is true exactly
\* when parenDepth > 0, which is exactly when the parentheses counted from
\* the opening libraryDependencies ... Seq( line have stayed open on every
\* line since; the in-block pattern contributes only on lines read while
\* the flag is true.
C27_FlagIffDepth ==
    (res.op = "Extract" /\ res.who = "scala" /\ res.err = "" /\ res.meta # <<>>
     /\ fs[BuildSbt].st = "ok") =>
        LET lines == fs[BuildSbt].body
            Tracked(acc, k) ==
                /\ acc.inLibraryDependencies <=> acc.parenDepth > 0
                /\ acc.inLibraryDependencies <=> InSeqBlock(lines, k + 1)
        IN /\ \A k \in 0..Len(lines) : Tracked(SbtAfter(lines, k), k)
           /\ ReturnedDependencies = BlockDependencies(lines, Len(lines))

\* a block of two lines is opened and closed; the dependency line after it
\* is not read
C27_Witness ==
    /\ res.op = "Extract" /\ res.who = "scala" /\ res.err = "" /\ res.meta # <<>>
    /\ fs[BuildSbt].st = "ok" /\ Len(fs[BuildSbt].body) = 3
    /\ fs[BuildSbt].body[1].opener /\ fs[BuildSbt].body[1].closes = 0
    /\ fs[BuildSbt].body[2].sdep = DepHBW /\ fs[BuildSbt].body[2].closes = 1
    /\ fs[BuildSbt].body[3].sdep = DepGAV
    /\ SbtAfter(fs[BuildSbt].body, 1).inLibraryDependencies
    /\ ~SbtAfter(fs[BuildSbt].body, 2).inLibraryDependencies
    /\ ReturnedDependencies = <<DepString(DepHBW)>>

-----------------------------------------------------------------------------
(* What the C/C++ Detect accepts                                           *)

\* the entries of the directory that lie directly in dir
DirectlyIn(dir) == { p \in DOMAIN fs : p[1] = dir }

\* the directory holds one of the five build files, or a C/C++ source or
\* header directly in its root or directly in src/
HoldsCppIndicator ==
    \/ \E p \in DirectlyIn("") :
         p \in {CMakeListsTxt, QmakeConf, MakefileP, ConfigureAc, MesonBuild}
    \/ \E p \in DirectlyIn("") \cup DirectlyIn("src") : p[3] \in CppPatterns

-----------------------------------------------------------------------------
(* What a failed manifest leaves in the record                             *)

\* the places in the chain of eco whose manifest exists and parses
UsableRungs(eco) ==
    { i \in 1..Len(ManifestsOf(eco)) : ExistsAndParses(ManifestsOf(eco)[i]) }

\* the places whose manifest exists, was tried and returned an error
FailedRungs(eco) ==
    { i \in 1..Len(ManifestsOf(eco)) :
        /\ Stat(ManifestsOf(eco)[i]) /\ ~ExistsAndParses(ManifestsOf(eco)[i])
        /\ \A j \in UsableRungs(eco) : i < j }

\* the record the manifest named by the returned label gives on its own
RecordOfLabel(eco) ==
    IF UsableRungs(eco) = {} THEN LastLabel(eco, NewMetadata)
    ELSE LET Alone(i) == RungReturn(eco, i, ParseRung(eco, i, NewMetadata).meta)
         IN Alone(Min(UsableRungs(eco)))

\* C29: when the C/C++ or Scala Extract passes over a manifest whose parse
\* returned an error, the record it returns holds nothing written while that
\* manifest was parsed: it is the record the manifest named by the label
\* gives on its own, or the bare fallback label.
C29_NothingFromFailedManifest ==
    (/\ res.op = "Extract" /\ res.who \in {"cpp", "scala"}
     /\ res.err = "" /\ res.meta # <<>>
     /\ FailedRungs(res.who) # {}) =>
        res.meta[1] = RecordOfLabel(res.who)

-----------------------------------------------------------------------------
(***************************************************************************)
(* The tool-version rows of the step summary                               *)
(*                                                                         *)
(* Project types and tool keys are sequences of characters: the filter     *)
(* tests prefixes of the former and the sort compares the latter.  A tool  *)
(* map is given by its keys in the order a range over it yields them; the  *)
(* value of a key is the version text the environment detected.            *)
(***************************************************************************)
\* the characters of tool keys in byte order
ByteOrder == <<"0", "1", "2", "3", "4", "5", "6", "7", "8", "9", "a", "b", "c", "d", "e", "f", "g", "h", "i", "j", "k", "l", "m", "n", "o", "p", "q", "r", "s", "t", "u", "v", "w", "x", "y", "z">>

Byte(c) == CHOOSE n \in 1..Len(ByteOrder) : ByteOrder[n] = c

\* a > b on Go strings: byte-wise, a proper prefix being the smaller
RECURSIVE Greater(_, _)
Greater(a, b) ==
    IF a = <<>> THEN FALSE
    ELSE IF b = <<>> THEN TRUE
    ELSE IF Head(a) # Head(b) THEN Byte(Head(a)) > Byte(Head(b))
    ELSE Greater(Tail(a), Tail(b))

\* the version text detected for a tool
DetectedVersion(tool) == <<"v">> \o tool

\* the tools a case of the switch looks up, in the order of its literal
RelevantList(projectType) ==
    IF IsPrefix(<<"p", "y", "t", "h", "o", "n">>, projectType)
        THEN <<<<"p", "i", "p">>>>
    ELSE IF IsPrefix(<<"j", "a", "v", "a", "s", "c", "r", "i", "p", "t">>, projectType) \/ IsPrefix(<<"t", "y", "p", "e", "s", "c", "r", "i", "p", "t">>, projectType)
        THEN <<<<"n", "o", "d", "e">>, <<"n", "p", "m">>, <<"y", "a", "r", "n">>>>
    ELSE IF IsPrefix(<<"j", "a", "v", "a">>, projectType)
        THEN <<<<"j", "a", "v", "a">>, <<"j", "a", "v", "a", "c">>, <<"m", "v", "n">>, <<"g", "r", "a", "d", "l", "e">>>>
    ELSE IF IsPrefix(<<"g", "o">>, projectType)
        THEN <<<<"g", "o">>>>
    ELSE IF IsPrefix(<<"r", "u", "s", "t">>, projectType)
        THEN <<<<"r", "u", "s", "t", "c">>, <<"c", "a", "r", "g", "o">>>>
    ELSE IF IsPrefix(<<"c", "s", "h", "a", "r", "p">>, projectType) \/ IsPrefix(<<"d", "o", "t", "n", "e", "t">>, projectType)
        THEN <<<<"d", "o", "t", "n", "e", "t">>>>
    ELSE IF IsPrefix(<<"p", "h", "p">>, projectType)
        THEN <<<<"p", "h", "p">>, <<"c", "o", "m", "p", "o", "s", "e", "r">>>>
    ELSE IF IsPrefix(<<"r", "u", "b", "y">>, projectType)
        THEN <<<<"r", "u", "b", "y">>, <<"g", "e", "m">>>>
    ELSE IF IsPrefix(<<"s", "w", "i", "f", "t">>, projectType)
        THEN <<<<"s", "w", "i", "f", "t">>>>
    ELSE IF IsPrefix(<<"t", "e", "r", "r", "a", "f", "o", "r", "m">>, projectType)
        THEN <<<<"t", "e", "r", "r", "a", "f", "o", "r", "m">>, <<"t", "o", "f", "u">>>>
    ELSE IF IsPrefix(<<"d", "o", "c", "k", "e", "r">>, projectType)
        THEN <<<<"d", "o", "c", "k", "e", "r">>, <<"k", "u", "b", "e", "c", "t", "l">>>>
    ELSE IF IsPrefix(<<"h", "e", "l", "m">>, projectType)
        THEN <<<<"h", "e", "l", "m">>, <<"k", "u", "b", "e", "c", "t", "l">>>>
    ELSE IF IsPrefix(<<"d", "a", "r", "t">>, projectType)
        THEN <<<<"d", "a", "r", "t">>, <<"f", "l", "u", "t", "t", "e", "r">>>>
    ELSE IF IsPrefix(<<"c", "-">>, projectType)
        THEN <<<<"g", "c", "c">>, <<"c", "l", "a", "n", "g">>, <<"c", "m", "a", "k", "e">>, <<"m", "a", "k", "e">>>>
    ELSE <<>>

\* the keys of the map filterRelevantTools(projectType, allTools) returns; the
\* order a later range yields them in is taken from the order of allTools
filterRelevantTools(projectType, allTools) ==
    IF projectType = <<>> \/ Len(allTools) = 0 THEN <<>>
    ELSE LET Looked(tool) == \E i \in 1..Len(RelevantList(projectType)) :
                                 RelevantList(projectType)[i] = tool
         IN  SelectSeq(allTools, Looked)

Swap(keys, i, j) == [keys EXCEPT ![i] = keys[j], ![j] = keys[i]]

\* the two loops of sortMapKeys, from positions i < j
RECURSIVE SortLoop(_, _, _)
SortLoop(keys, i, j) ==
    IF i > Len(keys) THEN keys
    ELSE IF j > Len(keys) THEN SortLoop(keys, i + 1, i + 2)
    ELSE IF Greater(keys[i], keys[j]) THEN SortLoop(Swap(keys, i, j), i, j + 1)
    ELSE SortLoop(keys, i, j + 1)

\* sortMapKeys variant that returns the keys as the range yielded them
sortMapKeysRangeOrder(keys) == keys

\* sortMapKeys(m), keys being the keys of m as the range yields them
sortMapKeys(keys) == SortLoop(keys, 1, 2)

nameMap ==
       <<"p", "y", "t", "h", "o", "n", "3">> :> "Python 3 Version"
    @@ <<"p", "y", "t", "h", "o", "n">> :> "Python Version"
    @@ <<"p", "i", "p">> :> "pip Version"
    @@ <<"n", "o", "d", "e">> :> "Node.js Version"
    @@ <<"n", "p", "m">> :> "npm Version"
    @@ <<"y", "a", "r", "n">> :> "Yarn Version"
    @@ <<"g", "o">> :> "Go Version"
    @@ <<"r", "u", "s", "t", "c">> :> "Rust Version"
    @@ <<"c", "a", "r", "g", "o">> :> "Cargo Version"
    @@ <<"j", "a", "v", "a">> :> "Java Version"
    @@ <<"j", "a", "v", "a", "c">> :> "Java Compiler Version"
    @@ <<"m", "v", "n">> :> "Maven Version"
    @@ <<"g", "r", "a", "d", "l", "e">> :> "Gradle Version"
    @@ <<"d", "o", "t", "n", "e", "t">> :> ".NET Version"
    @@ <<"p", "h", "p">> :> "PHP Version"
    @@ <<"c", "o", "m", "p", "o", "s", "e", "r">> :> "Composer Version"
    @@ <<"r", "u", "b", "y">> :> "Ruby Version"
    @@ <<"g", "e", "m">> :> "RubyGems Version"
    @@ <<"s", "w", "i", "f", "t">> :> "Swift Version"
    @@ <<"g", "i", "t">> :> "Git Version"
    @@ <<"t", "e", "r", "r", "a", "f", "o", "r", "m">> :> "Terraform Version"
    @@ <<"t", "o", "f", "u">> :> "OpenTofu Version"
    @@ <<"d", "o", "c", "k", "e", "r">> :> "Docker Version"
    @@ <<"k", "u", "b", "e", "c", "t", "l">> :> "kubectl Version"
    @@ <<"h", "e", "l", "m">> :> "Helm Version"
    @@ <<"d", "a", "r", "t">> :> "Dart Version"
    @@ <<"f", "l", "u", "t", "t", "e", "r">> :> "Flutter Version"
    @@ <<"g", "c", "c">> :> "GCC Version"
    @@ <<"c", "l", "a", "n", "g">> :> "Clang Version"
    @@ <<"c", "m", "a", "k", "e">> :> "CMake Version"
    @@ <<"m", "a", "k", "e">> :> "Make Version"

UpperCase == <<"A", "B", "C", "D", "E", "F", "G", "H", "I", "J", "K", "L", "M", "N", "O", "P", "Q", "R", "S", "T", "U", "V", "W", "X", "Y", "Z">>

\* strings.ToUpper on one character
ToUpper(c) ==
    IF \E n \in 1..26 : ByteOrder[10 + n] = c
        THEN UpperCase[CHOOSE n \in 1..26 : ByteOrder[10 + n] = c]
        ELSE c

formatToolName(tool) ==
    IF tool \in DOMAIN nameMap THEN nameMap[tool]
    ELSE IF Len(tool) > 0 THEN <<ToUpper(tool[1])>> \o Tail(tool) \o <<" Version">>
    ELSE tool

ToolRow(tool) == [tool |-> tool, name |-> formatToolName(tool), version |-> DetectedVersion(tool)]

\* the tool rows GenerateSummary writes for a metadata map
ToolRows(common, projectType, tools) ==
    IF ~common \/ Len(tools) = 0 THEN <<>>
    ELSE LET Rows(sortedTools) == [i \in 1..Len(sortedTools) |-> ToolRow(sortedTools[i])]
         IN  Rows(sortMapKeys(filterRelevantTools(projectType, tools)))

MaxTools == 3

\* project types the detection reports
ProjectTypes ==
    { <<"p", "y", "t", "h", "o", "n", "-", "m", "o", "d", "e", "r", "n">>,
      <<"j", "a", "v", "a", "s", "c", "r", "i", "p", "t", "-", "n", "p", "m">>,
      <<"t", "y", "p", "e", "s", "c", "r", "i", "p", "t", "-", "n", "p", "m">>,
      <<"j", "a", "v", "a", "-", "m", "a", "v", "e", "n">>,
      <<"g", "o", "-", "m", "o", "d", "u", "l", "e">>,
      <<"r", "u", "s", "t", "-", "c", "a", "r", "g", "o">>,
      <<"c", "-", "c", "m", "a", "k", "e">>,
      <<"e", "l", "i", "x", "i", "r", "-", "m", "i", "x">> }

\* tool keys the environment collector reports
ToolKeys ==
    { <<"p", "i", "p">>,
      <<"p", "y", "t", "h", "o", "n", "3">>,
      <<"p", "y", "t", "h", "o", "n">>,
      <<"n", "o", "d", "e">>,
      <<"n", "p", "m">>,
      <<"y", "a", "r", "n">>,
      <<"j", "a", "v", "a">>,
      <<"j", "a", "v", "a", "c">>,
      <<"m", "v", "n">>,
      <<"g", "r", "a", "d", "l", "e">>,
      <<"g", "o">>,
      <<"g", "i", "t">>,
      <<"c", "m", "a", "k", "e">>,
      <<"m", "a", "k", "e">> }

\* the ranges over maps of at most MaxTools tools
ToolRanges ==
    { ts \in UNION { [1..n -> ToolKeys] : n \in 0..MaxTools } :
        \A i, j \in 1..Len(ts) : i # j => ts[i] # ts[j] }

\* a metadata map without a "common" entry has no project type
InitSummary ==
    /\ dirStatus = "missing" /\ fs = EmptyMap
    /\ registry = <<>>
    /\ phase = "serving"
    /\ inited = {}
    /\ res = NoRes
    /\ calls = NoCalls
    /\ matrix = NoMatrix
    /\ \E ts \in ToolRanges :
         \/ summary = [NoSummary EXCEPT !.tools = ts]
         \/ \E pt \in ProjectTypes \cup {<<>>} :
              summary = [NoSummary EXCEPT !.common = TRUE, !.projectType = pt, !.tools = ts]

\* output.GenerateSummary(metadata), as far as its tool rows go
GenerateSummary ==
    /\ ~summary.done
    /\ summary' = [summary EXCEPT !.rows = ToolRows(summary.common, summary.projectType, summary.tools),
                                  !.done = TRUE]
    /\ UNCHANGED <<fsVars, registry, phase, inited, res, calls, matrix>>

NextSummary == GenerateSummary

SpecSummary == InitSummary /\ [][NextSummary]_vars

\* the tools listed for a project type
ListedFor(projectType) ==
    IF projectType = <<"p", "y", "t", "h", "o", "n", "-", "m", "o", "d", "e", "r", "n">>
        THEN {<<"p", "i", "p">>}
    ELSE IF projectType = <<"j", "a", "v", "a", "s", "c", "r", "i", "p", "t", "-", "n", "p", "m">>
        THEN {<<"n", "o", "d", "e">>, <<"n", "p", "m">>, <<"y", "a", "r", "n">>}
    ELSE IF projectType = <<"t", "y", "p", "e", "s", "c", "r", "i", "p", "t", "-", "n", "p", "m">>
        THEN {<<"n", "o", "d", "e">>, <<"n", "p", "m">>, <<"y", "a", "r", "n">>}
    ELSE IF projectType = <<"j", "a", "v", "a", "-", "m", "a", "v", "e", "n">>
        THEN {<<"j", "a", "v", "a">>, <<"j", "a", "v", "a", "c">>, <<"m", "v", "n">>, <<"g", "r", "a", "d", "l", "e">>}
    ELSE IF projectType = <<"g", "o", "-", "m", "o", "d", "u", "l", "e">>
        THEN {<<"g", "o">>}
    ELSE IF projectType = <<"r", "u", "s", "t", "-", "c", "a", "r", "g", "o">>
        THEN {<<"r", "u", "s", "t", "c">>, <<"c", "a", "r", "g", "o">>}
    ELSE IF projectType = <<"c", "-", "c", "m", "a", "k", "e">>
        THEN {<<"g", "c", "c">>, <<"c", "l", "a", "n", "g">>, <<"c", "m", "a", "k", "e">>, <<"m", "a", "k", "e">>}
    ELSE IF projectType = <<"e", "l", "i", "x", "i", "r", "-", "m", "i", "x">>
        THEN {}
    ELSE {}

BeginsWithPython(projectType) ==
    Len(projectType) >= 6 /\ SubSeq(projectType, 1, 6) = <<"p", "y", "t", "h", "o", "n">>

Present(tool) == \E i \in 1..Len(summary.tools) : summary.tools[i] = tool

Listed(tool) == \E i \in 1..Len(summary.rows) : summary.rows[i].tool = tool

\* the key at position b follows the key at position a in alphabetical order
Follows(a, b) ==
    \E k \in 1..Len(b) :
        /\ k - 1 <= Len(a) /\ SubSeq(a, 1, k - 1) = SubSeq(b, 1, k - 1)
        /\ k > Len(a) \/ Byte(a[k]) < Byte(b[k])

\* C30: the summary lists a tool-version row only for tools of the fixed
\* set of the project type, each with the version detected for it, in
\* ascending alphabetical order of tool key; for a project type beginning
\* with "python" it lists pip when present and never python3 or python; for
\* an empty project type or an empty tool map it lists no tool row
C30_RelevantToolsSorted ==
    summary.done =>
        /\ \A i \in 1..Len(summary.rows) :
              /\ summary.rows[i].tool \in ListedFor(summary.projectType)
              /\ Present(summary.rows[i].tool)
              /\ summary.rows[i].version = DetectedVersion(summary.rows[i].tool)
        /\ \A i, j \in 1..Len(summary.rows) :
              i < j => Follows(summary.rows[i].tool, summary.rows[j].tool)
        /\ BeginsWithPython(summary.projectType) =>
              /\ Present(<<"p", "i", "p">>) => Listed(<<"p", "i", "p">>)
              /\ ~Listed(<<"p", "y", "t", "h", "o", "n", "3">>) /\ ~Listed(<<"p", "y", "t", "h", "o", "n">>)
              /\ \A i \in 1..Len(summary.rows) :
                    summary.rows[i].name \notin {"Python 3 Version", "Python Version"}
        /\ (summary.projectType = <<>> \/ summary.tools = <<>>) => summary.rows = <<>>

\* a python project with python3, pip and python detected lists pip alone
C30_Witness ==
    /\ summary.done
    /\ summary.projectType = <<"p", "y", "t", "h", "o", "n", "-", "m", "o", "d", "e", "r", "n">>
    /\ summary.tools = <<<<"p", "y", "t", "h", "o", "n", "3">>, <<"p", "i", "p">>, <<"p", "y", "t", "h", "o", "n">>>>
    /\ Len(summary.rows) = 1 /\ summary.rows[1].name = "pip Version"

=============================================================================
